---------------------------- MODULE Spec2Model ----------------------------
(***************************************************************************)
(* Model of the paged register window of the LSM6DSO32 driver              *)
(* (src/lsm6dso32_reg.c): lsm6dso32_read_reg / lsm6dso32_write_reg,         *)
(* lsm6dso32_mem_bank_set, lsm6dso32_ln_pg_write, lsm6dso32_ln_pg_read and  *)
(* their single-byte wrappers, and of two configuration functions,         *)
(* lsm6dso32_mem_bank_get and lsm6dso32_xl_data_rate_set (SpecCfg).         *)
(* One step of the model is one call of                                     *)
(* lsm6dso32_read_reg or lsm6dso32_write_reg together with the control flow *)
(* that follows it up to the next such call.                                *)
(*                                                                         *)
(* The device behind the transport is a register file with three banks     *)
(* selected by FUNC_CFG_ACCESS.reg_access and a paged memory reached        *)
(* through PAGE_RW / PAGE_SEL / PAGE_ADDRESS / PAGE_VALUE in the embedded   *)
(* function bank.  A transaction for which the transport returns a nonzero *)
(* status has no effect on the device and leaves the caller's buffer        *)
(* untouched.  A C struct is a record of its bit-fields.                    *)
(***************************************************************************)
EXTENDS Integers, Sequences, FiniteSets, TLC

(* ------------------------------ bounds --------------------------------- *)
MaxLen == 2          \* longest burst a caller asks for
MaxCalls == 2        \* calls made in one behaviour
MaxFaults == 2       \* nonzero transport statuses in one behaviour
MaxSwitches == 3     \* SpecConc: times the scheduler changes caller

(* ------------------------- program constants --------------------------- *)
LSM6DSO32_USER_BANK == 0
LSM6DSO32_SENSOR_HUB_BANK == 1
LSM6DSO32_EMBEDDED_FUNC_BANK == 2
PAGE_RW_DISABLE == 0
PAGE_READ_ENABLE == 1
PAGE_WRITE_ENABLE == 2
NULL_CTX_ERROR == -1

Banks == {LSM6DSO32_USER_BANK, LSM6DSO32_SENSOR_HUB_BANK,
          LSM6DSO32_EMBEDDED_FUNC_BANK}
\* the contents the two bits of FUNC_CFG_ACCESS.reg_access can hold; each
\* selects a register file of the device
RegAccessPatterns == 0..3
PageRegs == {"PAGE_RW", "PAGE_SEL", "PAGE_ADDRESS", "PAGE_VALUE"}
\* the control registers lsm6dso32_xl_data_rate_set works on
CtrlRegs == {"CTRL1_XL", "CTRL5_C", "CTRL6_C"}

\* statuses the caller-supplied transport may return (int32_t, 0 = no error)
Status == {-1, 0, 1}
\* values an indeterminate (never written) bit may hold
UnknownBit == {0, 1}
\* values the page-value window returns when page read is not enabled
UnknownByte == {0, 255}

\* linear addresses the callers use: a page start (0x0100), a page end
\* (0x01FF), mid-page (0x0280), and the end of the last page with a bit set
\* above the 12 significant ones (0x1FFF)
Addresses == {256, 511, 640, 8191}
\* the single-byte accessors are used at a page start, a page end, mid-page
ByteAddresses == {256, 511, 640}
ByteValues == {0, 255}
\* the bytes a caller writes in its k-th call
Pattern(k, n) == [j \in 1..n |-> 16 * k + j]

(* ------------------------------ device --------------------------------- *)
ZeroReg(name) ==
  CASE name = "PAGE_RW"      -> [page_rw |-> 0, emb_func_lir |-> 0]
    [] name = "PAGE_SEL"     -> [page_sel |-> 0, not_used_01 |-> 0]
    [] name = "PAGE_ADDRESS" -> [page_addr |-> 0]
    [] name = "PAGE_VALUE"   -> [byte |-> 0]
    [] name = "CTRL1_XL"     -> [odr_xl |-> 0, other |-> 0]
    [] name = "CTRL5_C"      -> [xl_ulp_en |-> 0, other |-> 0]
    [] name = "CTRL6_C"      -> [xl_hm_mode |-> 0, other |-> 0]

MemAt(d, cell) == IF cell \in DOMAIN d.mem THEN d.mem[cell] ELSE 0

EmbRegs(d) == d.regs[LSM6DSO32_EMBEDDED_FUNC_BANK]

\* ctx->read_reg: the value the device returns for register `name`
DevRead(d, name, g) ==
  IF name = "FUNC_CFG_ACCESS" THEN d.fca
  ELSE IF d.fca.reg_access = LSM6DSO32_EMBEDDED_FUNC_BANK /\ name = "PAGE_VALUE"
       THEN [byte |-> IF EmbRegs(d)["PAGE_RW"].page_rw = PAGE_READ_ENABLE
                      THEN MemAt(d, <<EmbRegs(d)["PAGE_SEL"].page_sel,
                                      EmbRegs(d)["PAGE_ADDRESS"].page_addr>>)
                      ELSE g]
       ELSE d.regs[d.fca.reg_access][name]

\* ctx->write_reg: the device after value v is written to register `name`
DevWrite(d, name, v) ==
  IF name = "FUNC_CFG_ACCESS" THEN [d EXCEPT !.fca = v]
  ELSE IF d.fca.reg_access = LSM6DSO32_EMBEDDED_FUNC_BANK /\ name = "PAGE_VALUE"
       THEN IF EmbRegs(d)["PAGE_RW"].page_rw = PAGE_WRITE_ENABLE
            THEN LET cell == <<EmbRegs(d)["PAGE_SEL"].page_sel,
                               EmbRegs(d)["PAGE_ADDRESS"].page_addr>>
                 IN [d EXCEPT
                       !.mem = [c \in DOMAIN d.mem \cup {cell} |->
                                  IF c = cell THEN v.byte ELSE d.mem[c]],
                       !.regs[LSM6DSO32_EMBEDDED_FUNC_BANK]["PAGE_ADDRESS"] =
                          [page_addr |-> (cell[2] + 1) % 256]]
            ELSE d
       ELSE [d EXCEPT !.regs[d.fca.reg_access][name] = v]


(* ------------------- generic register access (lines 38-82) ------------- *)
\* what one call of lsm6dso32_read_reg / lsm6dso32_write_reg yields:
\*   ret  the value returned,  data  the caller's buffer afterwards,
\*   dev  the device afterwards,  bus  the transport invocations made
\*   (at: where the device's bank and page window stand when it is invoked)
DevCursor(d) ==
  [bank |-> d.fca.reg_access,
   page_rw |-> EmbRegs(d)["PAGE_RW"].page_rw,
   page_sel |-> EmbRegs(d)["PAGE_SEL"].page_sel,
   page_addr |-> EmbRegs(d)["PAGE_ADDRESS"].page_addr]

BusEvent(d, rw, reg, data, len, st) ==
  [rw |-> rw, reg |-> reg, data |-> data, len |-> len, st |-> st,
   at |-> DevCursor(d)]

\* faulty variant: the NULL check of ctx is missing
lsm6dso32_read_reg_NoNullCheck(ctx, d, reg, old, len, st, g) ==
  LET data == IF st = 0 THEN DevRead(d, reg, g) ELSE old
  IN [ret |-> st, data |-> data, dev |-> d,
      bus |-> <<BusEvent(d, "R", reg, data, len, st)>>]

lsm6dso32_read_reg(ctx, d, reg, old, len, st, g) ==
  IF ctx = "NULL"
  THEN [ret |-> NULL_CTX_ERROR, data |-> old, dev |-> d, bus |-> <<>>]
  ELSE LET data == IF st = 0 THEN DevRead(d, reg, g) ELSE old
       IN [ret |-> st, data |-> data, dev |-> d,
           bus |-> <<BusEvent(d, "R", reg, data, len, st)>>]

lsm6dso32_write_reg(ctx, d, reg, data, len, st) ==
  IF ctx = "NULL"
  THEN [ret |-> NULL_CTX_ERROR, data |-> data, dev |-> d, bus |-> <<>>]
  ELSE [ret |-> st, data |-> data,
        dev |-> IF st = 0 THEN DevWrite(d, reg, data) ELSE d,
        bus |-> <<BusEvent(d, "W", reg, data, len, st)>>]

\* bookkeeping of one register call r made by the routine running in l:
\* the transport invocations it made, the statement that made each of them
\* (its position, the bank switch it belongs to, the loop counter), how many
\* register calls were made, and what the last one was asked and answered
Log(l, r, rw, reg) ==
  [l EXCEPT !.trace = l.trace \o r.bus,
            !.steps = l.steps \o [k \in 1..Len(r.bus) |-> <<l.pc, l.ra, l.i>>],
            !.nreg = l.nreg + 1,
            !.lastreg = [rw |-> rw, reg |-> reg, data |-> r.data,
                         ret |-> r.ret, bus |-> r.bus]]

Out(l, d) == [loc |-> l, dev |-> d]

(* ------------------ lsm6dso32_mem_bank_set (lines 1469-1486) ----------- *)
\* faulty variant: a failed entry bank switch leaves through the exit label
mem_bank_set_return_ViaExit(l, r) ==
  IF l.ra = "enter"
  THEN IF r # 0
       THEN [l EXCEPT !.ret = r, !.pc = "bank_rd",
                      !.bank_val = LSM6DSO32_USER_BANK, !.ra = "exit"]
       ELSE [l EXCEPT !.ret = r, !.pc = "rw_rd"]
  ELSE IF l.ra = "exit"
  THEN [l EXCEPT !.ret = l.ret + r, !.pc = "done"]
  ELSE [l EXCEPT !.ret = r, !.pc = "done"]

\* return of mem_bank_set with status r: into the paged routine that called
\* it (lines 1566-1567 at entry, lines 1620-1622 at exit), or to the
\* application when it called lsm6dso32_mem_bank_set itself (line 1485)
mem_bank_set_return(l, r) ==
  IF l.ra = "enter"
  THEN [l EXCEPT !.ret = r, !.pc = IF r # 0 THEN "done" ELSE "rw_rd"]
  ELSE IF l.ra = "exit"
  THEN [l EXCEPT !.ret = l.ret + r, !.pc = "done"]
  ELSE [l EXCEPT !.ret = r, !.pc = "done"]

\* faulty variant: reg.reg_access is not assigned, the register is written back
mem_bank_set_read_KeepBank(l, d, st, g) ==
  LET r == lsm6dso32_read_reg(l.ctx, d, "FUNC_CFG_ACCESS", l.reg, 1, st, g)
      l1 == Log(l, r, "R", "FUNC_CFG_ACCESS")
  IN IF r.ret = 0
     THEN Out([l1 EXCEPT !.reg = r.data, !.pc = "bank_wr"], r.dev)
     ELSE Out(mem_bank_set_return(l1, r.ret), r.dev)

\* ret = read_reg(FUNC_CFG_ACCESS); if (ret == 0) reg.reg_access = val;
mem_bank_set_read(l, d, st, g) ==
  LET r == lsm6dso32_read_reg(l.ctx, d, "FUNC_CFG_ACCESS", l.reg, 1, st, g)
      l1 == Log(l, r, "R", "FUNC_CFG_ACCESS")
  IN IF r.ret = 0
     THEN Out([l1 EXCEPT !.reg = [r.data EXCEPT !.reg_access = l.bank_val],
                         !.pc = "bank_wr"], r.dev)
     ELSE Out(mem_bank_set_return(l1, r.ret), r.dev)

mem_bank_set_write(l, d, st, g) ==
  LET r == lsm6dso32_write_reg(l.ctx, d, "FUNC_CFG_ACCESS", l.reg, 1, st)
  IN Out(mem_bank_set_return(Log(l, r, "W", "FUNC_CFG_ACCESS"), r.ret), r.dev)

(* --------------- control flow shared by the paged routines ------------- *)
\* faulty variant: the page index is taken from bits 12-15
PageIndex_WrongNibble(address) == (address \div 4096) % 16

\* msb = ((uint8_t)(address >> 8) & 0x0FU)   (lines 1563, 1650)
PageIndex(address) == ((address \div 256) % 256) % 16
\* faulty variant: the offset is taken from the high byte of the address
PageOffset_HighByte(address) == (address \div 256) % 256

\* lsb = (uint8_t)address & 0xFFU            (lines 1564, 1651)
PageOffset(address) == address % 256
\* faulty variant: an index beyond the last page selects the last page
PageSelField_Clamped(msb) == IF msb > 15 THEN 15 ELSE msb

\* page_sel.page_sel = msb: the bit-field keeps the low four bits
PageSelField(msb) == msb % 16

\* faulty variant: return ret instead of goto exit
GotoExit_NoRestore(l) == [l EXCEPT !.pc = "done"]

\* exit: ret += lsm6dso32_mem_bank_set(ctx, LSM6DSO32_USER_BANK)
GotoExit(l) ==
  [l EXCEPT !.pc = "bank_rd", !.bank_val = LSM6DSO32_USER_BANK, !.ra = "exit"]

(* ------------------ lsm6dso32_ln_pg_write (lines 1552-1623) ------------ *)
\* loop head: for (i = 0; ((i < len) && (ret == 0)); i++)
ln_pg_write_loop(l) ==
  [l EXCEPT !.pc = IF l.i < l.len /\ l.ret = 0 THEN "val" ELSE "rst_wr"]

\* faulty variant: a failed read of PAGE_RW leaves for the exit label
ln_pg_write_rw_rd_Checked(l, d, st, g) ==
  LET r == lsm6dso32_read_reg(l.ctx, d, "PAGE_RW",
                              [page_rw |-> g, emb_func_lir |-> g], 1, st, g)
      l1 == [Log(l, r, "R", "PAGE_RW") EXCEPT !.ret = r.ret]
  IN Out(IF r.ret # 0 THEN GotoExit(l1)
         ELSE [l1 EXCEPT !.page_rw = [r.data EXCEPT
                                        !.page_rw = PAGE_WRITE_ENABLE],
                         !.pc = "rw_wr"], r.dev)

\* ret = read_reg(PAGE_RW); page_rw.page_rw = 0x02;
ln_pg_write_rw_rd(l, d, st, g) ==
  LET r == lsm6dso32_read_reg(l.ctx, d, "PAGE_RW",
                              [page_rw |-> g, emb_func_lir |-> g], 1, st, g)
      l1 == Log(l, r, "R", "PAGE_RW")
  IN Out([l1 EXCEPT !.ret = r.ret,
                    !.page_rw = [r.data EXCEPT !.page_rw = PAGE_WRITE_ENABLE],
                    !.pc = "rw_wr"], r.dev)

\* ret += write_reg(PAGE_RW); if (ret != 0) goto exit;
ln_pg_write_rw_wr(l, d, st, g) ==
  LET r == lsm6dso32_write_reg(l.ctx, d, "PAGE_RW", l.page_rw, 1, st)
      l1 == [Log(l, r, "W", "PAGE_RW") EXCEPT !.ret = l.ret + r.ret]
  IN Out(IF l1.ret # 0 THEN GotoExit(l1) ELSE [l1 EXCEPT !.pc = "sel_rd"],
         r.dev)

\* ret = read_reg(PAGE_SEL); page_sel.page_sel = msb; page_sel.not_used_01 = 1;
ln_pg_write_sel_rd(l, d, st, g) ==
  LET r == lsm6dso32_read_reg(l.ctx, d, "PAGE_SEL", l.page_sel, 1, st, g)
      l1 == Log(l, r, "R", "PAGE_SEL")
  IN Out([l1 EXCEPT !.ret = r.ret,
                    !.page_sel = [page_sel |-> PageSelField(l.msb),
                                  not_used_01 |-> 1],
                    !.pc = "sel_wr"], r.dev)

\* faulty variant: the page address is not written, the loop follows at once
ln_pg_write_sel_wr_NoAddr(l, d, st, g) ==
  LET r == lsm6dso32_write_reg(l.ctx, d, "PAGE_SEL", l.page_sel, 1, st)
      l1 == [Log(l, r, "W", "PAGE_SEL") EXCEPT !.ret = l.ret + r.ret]
  IN Out(IF l1.ret # 0 THEN GotoExit(l1)
         ELSE ln_pg_write_loop([l1 EXCEPT !.i = 0]), r.dev)

\* ret += write_reg(PAGE_SEL); if (ret != 0) goto exit;
ln_pg_write_sel_wr(l, d, st, g) ==
  LET r == lsm6dso32_write_reg(l.ctx, d, "PAGE_SEL", l.page_sel, 1, st)
      l1 == [Log(l, r, "W", "PAGE_SEL") EXCEPT !.ret = l.ret + r.ret]
  IN Out(IF l1.ret # 0 THEN GotoExit(l1) ELSE [l1 EXCEPT !.pc = "addr_wr"],
         r.dev)

\* faulty variant: the offset register is set one beyond the start offset
ln_pg_write_addr_wr_OffByOne(l, d, st, g) ==
  LET r == lsm6dso32_write_reg(l.ctx, d, "PAGE_ADDRESS",
                               [page_addr |-> (l.lsb + 1) % 256], 1, st)
      l1 == [Log(l, r, "W", "PAGE_ADDRESS") EXCEPT !.ret = l.ret + r.ret]
  IN Out(IF l1.ret # 0 THEN GotoExit(l1)
         ELSE ln_pg_write_loop([l1 EXCEPT !.i = 0]), r.dev)

\* page_address.page_addr = lsb; ret += write_reg(PAGE_ADDRESS);
\* if (ret != 0) goto exit;  then the loop is entered with i = 0
ln_pg_write_addr_wr(l, d, st, g) ==
  LET r == lsm6dso32_write_reg(l.ctx, d, "PAGE_ADDRESS",
                               [page_addr |-> l.lsb], 1, st)
      l1 == [Log(l, r, "W", "PAGE_ADDRESS") EXCEPT !.ret = l.ret + r.ret]
  IN Out(IF l1.ret # 0 THEN GotoExit(l1)
         ELSE ln_pg_write_loop([l1 EXCEPT !.i = 0]), r.dev)

\* faulty variant: msb is not incremented when the offset wraps
ln_pg_write_val_NoPageInc(l, d, st, g) ==
  LET r == lsm6dso32_write_reg(l.ctx, d, "PAGE_VALUE",
                               [byte |-> l.buf[l.i + 1]], 1, st)
      l1 == [Log(l, r, "W", "PAGE_VALUE") EXCEPT !.ret = r.ret]
      l2 == [l1 EXCEPT !.lsb = (l.lsb + 1) % 256]
  IN Out(IF l1.ret # 0 THEN GotoExit(l1)
         ELSE IF l2.lsb = 0
              THEN [l2 EXCEPT !.pc = "wrap_rd"]
              ELSE ln_pg_write_loop([l2 EXCEPT !.i = l.i + 1]), r.dev)

\* faulty variant: the loop counter is not advanced after a byte
ln_pg_write_val_NoAdvance(l, d, st, g) ==
  LET r == lsm6dso32_write_reg(l.ctx, d, "PAGE_VALUE",
                               [byte |-> l.buf[l.i + 1]], 1, st)
      l1 == [Log(l, r, "W", "PAGE_VALUE") EXCEPT !.ret = r.ret]
      l2 == [l1 EXCEPT !.lsb = (l.lsb + 1) % 256]
  IN Out(IF l1.ret # 0 THEN GotoExit(l1)
         ELSE IF l2.lsb = 0
              THEN [l2 EXCEPT !.msb = (l.msb + 1) % 256, !.pc = "wrap_rd"]
              ELSE ln_pg_write_loop(l2), r.dev)

\* ret = write_reg(PAGE_VALUE, &buf[i]); if (ret != 0) goto exit; lsb++;
\* if (((lsb & 0xFF) == 0) && (ret == 0)) { msb++; ... } else next iteration
ln_pg_write_val(l, d, st, g) ==
  LET r == lsm6dso32_write_reg(l.ctx, d, "PAGE_VALUE",
                               [byte |-> l.buf[l.i + 1]], 1, st)
      l1 == [Log(l, r, "W", "PAGE_VALUE") EXCEPT !.ret = r.ret]
      l2 == [l1 EXCEPT !.lsb = (l.lsb + 1) % 256]
  IN Out(IF l1.ret # 0 THEN GotoExit(l1)
         ELSE IF l2.lsb = 0
              THEN [l2 EXCEPT !.msb = (l.msb + 1) % 256, !.pc = "wrap_rd"]
              ELSE ln_pg_write_loop([l2 EXCEPT !.i = l.i + 1]), r.dev)

\* ret += read_reg(PAGE_SEL); if (ret != 0) goto exit;
\* page_sel.page_sel = msb; page_sel.not_used_01 = 1;
ln_pg_write_wrap_rd(l, d, st, g) ==
  LET r == lsm6dso32_read_reg(l.ctx, d, "PAGE_SEL", l.page_sel, 1, st, g)
      l1 == [Log(l, r, "R", "PAGE_SEL") EXCEPT !.ret = l.ret + r.ret]
  IN Out(IF l1.ret # 0 THEN GotoExit(l1)
         ELSE [l1 EXCEPT !.page_sel = [page_sel |-> PageSelField(l.msb),
                                       not_used_01 |-> 1],
                         !.pc = "wrap_wr"], r.dev)

\* faulty variant: a failed re-selection of the page is tried again
ln_pg_write_wrap_wr_Retry(l, d, st, g) ==
  LET r == lsm6dso32_write_reg(l.ctx, d, "PAGE_SEL", l.page_sel, 1, st)
      l1 == [Log(l, r, "W", "PAGE_SEL") EXCEPT !.ret = r.ret]
  IN Out(IF l1.ret # 0 THEN [l1 EXCEPT !.ret = 0]
         ELSE ln_pg_write_loop([l1 EXCEPT !.i = l.i + 1]), r.dev)

\* ret = write_reg(PAGE_SEL); if (ret != 0) goto exit;  then i++
ln_pg_write_wrap_wr(l, d, st, g) ==
  LET r == lsm6dso32_write_reg(l.ctx, d, "PAGE_SEL", l.page_sel, 1, st)
      l1 == [Log(l, r, "W", "PAGE_SEL") EXCEPT !.ret = r.ret]
  IN Out(IF l1.ret # 0 THEN GotoExit(l1)
         ELSE ln_pg_write_loop([l1 EXCEPT !.i = l.i + 1]), r.dev)

\* faulty variant: the page selector is not reset to page 0 after the burst
ln_pg_write_rst_wr_KeepPage(l, d, st, g) ==
  LET ps == [page_sel |-> PageSelField(l.msb), not_used_01 |-> 1]
      r == lsm6dso32_write_reg(l.ctx, d, "PAGE_SEL", ps, 1, st)
      l1 == [Log(l, r, "W", "PAGE_SEL") EXCEPT !.ret = r.ret, !.page_sel = ps]
  IN Out(IF l1.ret # 0 THEN GotoExit(l1) ELSE [l1 EXCEPT !.pc = "clr_rd"],
         r.dev)

\* page_sel.page_sel = 0; page_sel.not_used_01 = 1;
\* ret = write_reg(PAGE_SEL); if (ret != 0) goto exit;
ln_pg_write_rst_wr(l, d, st, g) ==
  LET ps == [page_sel |-> 0, not_used_01 |-> 1]
      r == lsm6dso32_write_reg(l.ctx, d, "PAGE_SEL", ps, 1, st)
      l1 == [Log(l, r, "W", "PAGE_SEL") EXCEPT !.ret = r.ret, !.page_sel = ps]
  IN Out(IF l1.ret # 0 THEN GotoExit(l1) ELSE [l1 EXCEPT !.pc = "clr_rd"],
         r.dev)

\* faulty variant: the whole register is cleared, not the page_rw field
ln_pg_write_clr_rd_Whole(l, d, st, g) ==
  LET r == lsm6dso32_read_reg(l.ctx, d, "PAGE_RW", l.page_rw, 1, st, g)
      l1 == Log(l, r, "R", "PAGE_RW")
  IN Out([l1 EXCEPT !.ret = r.ret,
                    !.page_rw = [page_rw |-> PAGE_RW_DISABLE,
                                 emb_func_lir |-> 0],
                    !.pc = "clr_wr"], r.dev)

\* ret = read_reg(PAGE_RW); page_rw.page_rw = 0x00;
ln_pg_write_clr_rd(l, d, st, g) ==
  LET r == lsm6dso32_read_reg(l.ctx, d, "PAGE_RW", l.page_rw, 1, st, g)
      l1 == Log(l, r, "R", "PAGE_RW")
  IN Out([l1 EXCEPT !.ret = r.ret,
                    !.page_rw = [r.data EXCEPT !.page_rw = PAGE_RW_DISABLE],
                    !.pc = "clr_wr"], r.dev)

\* ret += write_reg(PAGE_RW);  then falls through to exit
ln_pg_write_clr_wr(l, d, st, g) ==
  LET r == lsm6dso32_write_reg(l.ctx, d, "PAGE_RW", l.page_rw, 1, st)
      l1 == [Log(l, r, "W", "PAGE_RW") EXCEPT !.ret = l.ret + r.ret]
  IN Out(GotoExit(l1), r.dev)

\* one register transaction of lsm6dso32_ln_pg_write, by its position
lsm6dso32_ln_pg_write(l, d, st, g) ==
  CASE l.pc = "bank_rd" -> mem_bank_set_read(l, d, st, g)
    [] l.pc = "bank_wr" -> mem_bank_set_write(l, d, st, g)
    [] l.pc = "rw_rd"   -> ln_pg_write_rw_rd(l, d, st, g)
    [] l.pc = "rw_wr"   -> ln_pg_write_rw_wr(l, d, st, g)
    [] l.pc = "sel_rd"  -> ln_pg_write_sel_rd(l, d, st, g)
    [] l.pc = "sel_wr"  -> ln_pg_write_sel_wr(l, d, st, g)
    [] l.pc = "addr_wr" -> ln_pg_write_addr_wr(l, d, st, g)
    [] l.pc = "val"     -> ln_pg_write_val(l, d, st, g)
    [] l.pc = "wrap_rd" -> ln_pg_write_wrap_rd(l, d, st, g)
    [] l.pc = "wrap_wr" -> ln_pg_write_wrap_wr(l, d, st, g)
    [] l.pc = "rst_wr"  -> ln_pg_write_rst_wr(l, d, st, g)
    [] l.pc = "clr_rd"  -> ln_pg_write_clr_rd(l, d, st, g)
    [] l.pc = "clr_wr"  -> ln_pg_write_clr_wr(l, d, st, g)

(* ------------------ lsm6dso32_ln_pg_read (lines 1639-1710) ------------- *)
\* faulty variant: the page address is written before the first byte only
ln_pg_read_loop_AddrOnce(l) ==
  [l EXCEPT !.pc = IF l.i < l.len /\ l.ret = 0
                   THEN (IF l.i = 0 THEN "addr_wr" ELSE "val")
                   ELSE "rst_wr"]

\* loop head: for (i = 0; ((i < len) && (ret == 0)); i++)
ln_pg_read_loop(l) ==
  [l EXCEPT !.pc = IF l.i < l.len /\ l.ret = 0 THEN "addr_wr" ELSE "rst_wr"]

\* ret = read_reg(PAGE_RW); page_rw.page_rw = 0x01;
ln_pg_read_rw_rd(l, d, st, g) ==
  LET r == lsm6dso32_read_reg(l.ctx, d, "PAGE_RW",
                              [page_rw |-> g, emb_func_lir |-> g], 1, st, g)
      l1 == Log(l, r, "R", "PAGE_RW")
  IN Out([l1 EXCEPT !.ret = r.ret,
                    !.page_rw = [r.data EXCEPT !.page_rw = PAGE_READ_ENABLE],
                    !.pc = "rw_wr"], r.dev)

\* ret += write_reg(PAGE_RW); if (ret != 0) goto exit;
ln_pg_read_rw_wr(l, d, st, g) ==
  LET r == lsm6dso32_write_reg(l.ctx, d, "PAGE_RW", l.page_rw, 1, st)
      l1 == [Log(l, r, "W", "PAGE_RW") EXCEPT !.ret = l.ret + r.ret]
  IN Out(IF l1.ret # 0 THEN GotoExit(l1) ELSE [l1 EXCEPT !.pc = "sel_rd"],
         r.dev)

\* ret = read_reg(PAGE_SEL); page_sel.page_sel = msb; page_sel.not_used_01 = 1;
ln_pg_read_sel_rd(l, d, st, g) ==
  LET r == lsm6dso32_read_reg(l.ctx, d, "PAGE_SEL", l.page_sel, 1, st, g)
      l1 == Log(l, r, "R", "PAGE_SEL")
  IN Out([l1 EXCEPT !.ret = r.ret,
                    !.page_sel = [page_sel |-> PageSelField(l.msb),
                                  not_used_01 |-> 1],
                    !.pc = "sel_wr"], r.dev)

\* ret += write_reg(PAGE_SEL); if (ret != 0) goto exit;
\* then the loop is entered with i = 0
ln_pg_read_sel_wr(l, d, st, g) ==
  LET r == lsm6dso32_write_reg(l.ctx, d, "PAGE_SEL", l.page_sel, 1, st)
      l1 == [Log(l, r, "W", "PAGE_SEL") EXCEPT !.ret = l.ret + r.ret]
  IN Out(IF l1.ret # 0 THEN GotoExit(l1)
         ELSE ln_pg_read_loop([l1 EXCEPT !.i = 0]), r.dev)

\* in the loop: page_address.page_addr = lsb; ret = write_reg(PAGE_ADDRESS);
\* if (ret != 0) goto exit;
ln_pg_read_addr_wr(l, d, st, g) ==
  LET r == lsm6dso32_write_reg(l.ctx, d, "PAGE_ADDRESS",
                               [page_addr |-> l.lsb], 1, st)
      l1 == [Log(l, r, "W", "PAGE_ADDRESS") EXCEPT !.ret = r.ret]
  IN Out(IF l1.ret # 0 THEN GotoExit(l1) ELSE [l1 EXCEPT !.pc = "val"], r.dev)

\* faulty variant: the next byte is read without writing its offset first
ln_pg_read_val_NoReAddr(l, d, st, g) ==
  LET r == lsm6dso32_read_reg(l.ctx, d, "PAGE_VALUE",
                              [byte |-> l.buf[l.i + 1]], 1, st, g)
      l1 == [Log(l, r, "R", "PAGE_VALUE") EXCEPT
               !.ret = l.ret + r.ret, !.buf[l.i + 1] = r.data.byte]
      l2 == [l1 EXCEPT !.lsb = (l.lsb + 1) % 256]
      l3 == ln_pg_read_loop([l2 EXCEPT !.i = l.i + 1])
  IN Out(IF l1.ret # 0 THEN GotoExit(l1)
         ELSE IF l2.lsb = 0
              THEN [l2 EXCEPT !.msb = (l.msb + 1) % 256, !.pc = "wrap_rd"]
              ELSE IF l3.pc = "addr_wr" THEN [l3 EXCEPT !.pc = "val"] ELSE l3,
         r.dev)

\* faulty variant: the status of the page-value read is not checked
ln_pg_read_val_NoAbort(l, d, st, g) ==
  LET r == lsm6dso32_read_reg(l.ctx, d, "PAGE_VALUE",
                              [byte |-> l.buf[l.i + 1]], 1, st, g)
      l1 == [Log(l, r, "R", "PAGE_VALUE") EXCEPT
               !.ret = l.ret + r.ret, !.buf[l.i + 1] = r.data.byte]
      l2 == [l1 EXCEPT !.lsb = (l.lsb + 1) % 256]
  IN Out(IF l2.lsb = 0 /\ l2.ret = 0
         THEN [l2 EXCEPT !.msb = (l.msb + 1) % 256, !.pc = "wrap_rd"]
         ELSE ln_pg_read_loop([l2 EXCEPT !.i = l.i + 1]), r.dev)

\* faulty variant: the page wrap is tested on the low 7 bits of the offset
ln_pg_read_val_Wrap7(l, d, st, g) ==
  LET r == lsm6dso32_read_reg(l.ctx, d, "PAGE_VALUE",
                              [byte |-> l.buf[l.i + 1]], 1, st, g)
      l1 == [Log(l, r, "R", "PAGE_VALUE") EXCEPT
               !.ret = l.ret + r.ret, !.buf[l.i + 1] = r.data.byte]
      l2 == [l1 EXCEPT !.lsb = (l.lsb + 1) % 256]
  IN Out(IF l1.ret # 0 THEN GotoExit(l1)
         ELSE IF l2.lsb % 128 = 0
              THEN [l2 EXCEPT !.msb = (l.msb + 1) % 256, !.pc = "wrap_rd"]
              ELSE ln_pg_read_loop([l2 EXCEPT !.i = l.i + 1]), r.dev)

\* ret += read_reg(PAGE_VALUE, &buf[i]); if (ret != 0) goto exit; lsb++;
\* if (((lsb & 0xFF) == 0) && (ret == 0)) { msb++; ... } else next iteration
ln_pg_read_val(l, d, st, g) ==
  LET r == lsm6dso32_read_reg(l.ctx, d, "PAGE_VALUE",
                              [byte |-> l.buf[l.i + 1]], 1, st, g)
      l1 == [Log(l, r, "R", "PAGE_VALUE") EXCEPT
               !.ret = l.ret + r.ret, !.buf[l.i + 1] = r.data.byte]
      l2 == [l1 EXCEPT !.lsb = (l.lsb + 1) % 256]
  IN Out(IF l1.ret # 0 THEN GotoExit(l1)
         ELSE IF l2.lsb = 0
              THEN [l2 EXCEPT !.msb = (l.msb + 1) % 256, !.pc = "wrap_rd"]
              ELSE ln_pg_read_loop([l2 EXCEPT !.i = l.i + 1]), r.dev)

\* ret += read_reg(PAGE_SEL); if (ret != 0) goto exit;
\* page_sel.page_sel = msb; page_sel.not_used_01 = 1;
ln_pg_read_wrap_rd(l, d, st, g) ==
  LET r == lsm6dso32_read_reg(l.ctx, d, "PAGE_SEL", l.page_sel, 1, st, g)
      l1 == [Log(l, r, "R", "PAGE_SEL") EXCEPT !.ret = l.ret + r.ret]
  IN Out(IF l1.ret # 0 THEN GotoExit(l1)
         ELSE [l1 EXCEPT !.page_sel = [page_sel |-> PageSelField(l.msb),
                                       not_used_01 |-> 1],
                         !.pc = "wrap_wr"], r.dev)

\* ret += write_reg(PAGE_SEL); if (ret != 0) goto exit;  then i++
ln_pg_read_wrap_wr(l, d, st, g) ==
  LET r == lsm6dso32_write_reg(l.ctx, d, "PAGE_SEL", l.page_sel, 1, st)
      l1 == [Log(l, r, "W", "PAGE_SEL") EXCEPT !.ret = l.ret + r.ret]
  IN Out(IF l1.ret # 0 THEN GotoExit(l1)
         ELSE ln_pg_read_loop([l1 EXCEPT !.i = l.i + 1]), r.dev)

\* page_sel.page_sel = 0; page_sel.not_used_01 = 1;
\* ret = write_reg(PAGE_SEL); if (ret != 0) goto exit;
ln_pg_read_rst_wr(l, d, st, g) ==
  LET ps == [page_sel |-> 0, not_used_01 |-> 1]
      r == lsm6dso32_write_reg(l.ctx, d, "PAGE_SEL", ps, 1, st)
      l1 == [Log(l, r, "W", "PAGE_SEL") EXCEPT !.ret = r.ret, !.page_sel = ps]
  IN Out(IF l1.ret # 0 THEN GotoExit(l1) ELSE [l1 EXCEPT !.pc = "clr_rd"],
         r.dev)

\* ret = read_reg(PAGE_RW); page_rw.page_rw = 0x00;
ln_pg_read_clr_rd(l, d, st, g) ==
  LET r == lsm6dso32_read_reg(l.ctx, d, "PAGE_RW", l.page_rw, 1, st, g)
      l1 == Log(l, r, "R", "PAGE_RW")
  IN Out([l1 EXCEPT !.ret = r.ret,
                    !.page_rw = [r.data EXCEPT !.page_rw = PAGE_RW_DISABLE],
                    !.pc = "clr_wr"], r.dev)

\* ret += write_reg(PAGE_RW);  then falls through to exit
ln_pg_read_clr_wr(l, d, st, g) ==
  LET r == lsm6dso32_write_reg(l.ctx, d, "PAGE_RW", l.page_rw, 1, st)
      l1 == [Log(l, r, "W", "PAGE_RW") EXCEPT !.ret = l.ret + r.ret]
  IN Out(GotoExit(l1), r.dev)

\* one register transaction of lsm6dso32_ln_pg_read, by its position
lsm6dso32_ln_pg_read(l, d, st, g) ==
  CASE l.pc = "bank_rd" -> mem_bank_set_read(l, d, st, g)
    [] l.pc = "bank_wr" -> mem_bank_set_write(l, d, st, g)
    [] l.pc = "rw_rd"   -> ln_pg_read_rw_rd(l, d, st, g)
    [] l.pc = "rw_wr"   -> ln_pg_read_rw_wr(l, d, st, g)
    [] l.pc = "sel_rd"  -> ln_pg_read_sel_rd(l, d, st, g)
    [] l.pc = "sel_wr"  -> ln_pg_read_sel_wr(l, d, st, g)
    [] l.pc = "addr_wr" -> ln_pg_read_addr_wr(l, d, st, g)
    [] l.pc = "val"     -> ln_pg_read_val(l, d, st, g)
    [] l.pc = "wrap_rd" -> ln_pg_read_wrap_rd(l, d, st, g)
    [] l.pc = "wrap_wr" -> ln_pg_read_wrap_wr(l, d, st, g)
    [] l.pc = "rst_wr"  -> ln_pg_read_rst_wr(l, d, st, g)
    [] l.pc = "clr_rd"  -> ln_pg_read_clr_rd(l, d, st, g)
    [] l.pc = "clr_wr"  -> ln_pg_read_clr_wr(l, d, st, g)

(* ------------------------------- state --------------------------------- *)
VARIABLES
  loc,     \* per caller: the running routine's arguments, locals and position
  prev,    \* per caller: loc as it was when the caller's previous call ended
  dev,     \* the device: FUNC_CFG_ACCESS, the banked registers, paged memory
  calls,   \* calls made so far
  faults,  \* nonzero statuses the transport has returned so far
  twin,    \* a second caller/device pair, run in lock step by SpecPair
  sched    \* SpecConc: who issued the last transaction, switches so far

vars == <<loc, prev, dev, calls, faults, twin, sched>>

Callers == {1, 2}

NoReg == [rw |-> "-", reg |-> "-", data |-> [byte |-> 0], ret |-> 0,
          bus |-> <<>>]

IdleLoc ==
  [pc |-> "idle", fn |-> "-", via |-> "-", ctx |-> "dev", address |-> 0,
   len |-> 0, buf |-> <<>>, msb |-> 0, lsb |-> 0, i |-> 0, ret |-> 0,
   page_rw |-> ZeroReg("PAGE_RW"), page_sel |-> ZeroReg("PAGE_SEL"),
   reg |-> [reg_access |-> 0, other |-> 0],
   bank_val |-> 0, ra |-> "-", trace |-> <<>>, steps |-> <<>>, nreg |-> 0,
   lastreg |-> NoReg,
   canon0 |-> TRUE, mixed |-> FALSE]

\* the canonical idle state of the device: user bank, page 0, page access off
Canonical(d) ==
  /\ d.fca.reg_access = LSM6DSO32_USER_BANK
  /\ EmbRegs(d)["PAGE_SEL"].page_sel = 0
  /\ EmbRegs(d)["PAGE_RW"].page_rw = PAGE_RW_DISABLE

\* the device after power-on
DevInit ==
  [fca  |-> [reg_access |-> LSM6DSO32_USER_BANK, other |-> 0],
   regs |-> [b \in Banks |-> [n \in PageRegs |->
              IF b = LSM6DSO32_EMBEDDED_FUNC_BANK /\ n = "PAGE_RW"
              THEN [page_rw |-> PAGE_RW_DISABLE, emb_func_lir |-> 0]
              ELSE IF b = LSM6DSO32_EMBEDDED_FUNC_BANK /\ n = "PAGE_SEL"
              THEN [page_sel |-> 0, not_used_01 |-> 1]
              ELSE ZeroReg(n)]],
   mem  |-> <<>>]

\* entry of lsm6dso32_ln_pg_write / lsm6dso32_ln_pg_read up to the first
\* register call: msb and lsb are taken from the address, then
\* lsm6dso32_mem_bank_set(ctx, LSM6DSO32_EMBEDDED_FUNC_BANK) is entered
Enter(fn, via, ctx, address, buf, len, d) ==
  [IdleLoc EXCEPT !.pc = "bank_rd", !.fn = fn, !.via = via, !.ctx = ctx,
                  !.address = address, !.len = len, !.buf = buf,
                  !.msb = PageIndex(address), !.lsb = PageOffset(address),
                  !.bank_val = LSM6DSO32_EMBEDDED_FUNC_BANK, !.ra = "enter",
                  !.canon0 = Canonical(d)]

\* lsm6dso32_ln_pg_write_byte: return lsm6dso32_ln_pg_write(ctx, address, val, 1)
lsm6dso32_ln_pg_write_byte(ctx, address, val, d) ==
  Enter("ln_pg_write", "byte", ctx, address, val, 1, d)

\* faulty variant: the wrapper passes a length of 0
lsm6dso32_ln_pg_read_byte_Len0(ctx, address, val, d) ==
  Enter("ln_pg_read", "byte", ctx, address, val, 0, d)

\* lsm6dso32_ln_pg_read_byte: return lsm6dso32_ln_pg_read(ctx, address, val, 1)
lsm6dso32_ln_pg_read_byte(ctx, address, val, d) ==
  Enter("ln_pg_read", "byte", ctx, address, val, 1, d)

\* a caller's own call of lsm6dso32_read_reg / lsm6dso32_write_reg on
\* register reg with a one-byte buffer holding data
RegEnter(fn, ctx, reg, data) ==
  [IdleLoc EXCEPT !.pc = "reg", !.fn = fn, !.ctx = ctx,
                  !.lastreg = [NoReg EXCEPT !.reg = reg, !.data = data]]

RegStep(l, d, st, g) ==
  IF l.fn = "read_reg"
  THEN LET r == lsm6dso32_read_reg(l.ctx, d, l.lastreg.reg, l.lastreg.data,
                                   1, st, g)
       IN Out([Log(l, r, "R", l.lastreg.reg) EXCEPT
                 !.ret = r.ret, !.pc = "done"], r.dev)
  ELSE LET r == lsm6dso32_write_reg(l.ctx, d, l.lastreg.reg, l.lastreg.data,
                                    1, st)
       IN Out([Log(l, r, "W", l.lastreg.reg) EXCEPT
                 !.ret = r.ret, !.pc = "done"], r.dev)

\* one register transaction of the routine running in l
DriverStep(l, d, st, g) ==
  CASE l.fn = "ln_pg_write" -> lsm6dso32_ln_pg_write(l, d, st, g)
    [] l.fn = "ln_pg_read"  -> lsm6dso32_ln_pg_read(l, d, st, g)
    [] l.fn \in {"read_reg", "write_reg"} -> RegStep(l, d, st, g)

Running(l) == l.pc \notin {"idle", "done"}

\* every transport invocation of the call answered 0
Clean(l) == \A k \in 1..Len(l.trace) : l.trace[k].st = 0

\* what is remembered of a call once the next one starts
Summary(l) ==
  IF l.pc = "done" /\ l.ctx # "NULL" /\ Clean(l)
  THEN [ok |-> TRUE, fn |-> l.fn, via |-> l.via, address |-> l.address,
        len |-> l.len, buf |-> l.buf]
  ELSE [ok |-> FALSE, fn |-> "-", via |-> "-", address |-> 0, len |-> 0,
        buf |-> <<>>]

Contexts == {"dev", "NULL"}
WriteData(len) == {Pattern(calls + 1, len)}
\* a caller's buffer before a read fills it (0xEE in every byte)
ReadBuffer(len) == [j \in 1..len |-> 238]

\* what the transport may answer to the next transaction
StatusChoices(l) ==
  IF l.ctx = "NULL" THEN {0}
  ELSE IF faults < MaxFaults THEN Status ELSE {0}
\* what an indeterminate value read by the next transaction may be
UnknownChoices(l) ==
  IF l.pc = "rw_rd" THEN UnknownBit
  ELSE IF l.fn = "ln_pg_read" /\ l.pc = "val" THEN UnknownByte ELSE {0}

Init ==
  /\ loc = [p \in Callers |-> IdleLoc]
  /\ prev = [p \in Callers |-> Summary(IdleLoc)]
  /\ dev = DevInit
  /\ calls = 0
  /\ faults = 0
  /\ twin = [loc |-> IdleLoc, dev |-> DevInit]
  /\ sched = [last |-> 0, switches |-> 0]

Start(p, l) ==
  /\ ~Running(loc[p])
  /\ calls < MaxCalls
  /\ loc' = [loc EXCEPT ![p] = l]
  /\ prev' = [prev EXCEPT ![p] = Summary(loc[p])]
  /\ calls' = calls + 1
  /\ UNCHANGED <<dev, faults, twin, sched>>

\* lsm6dso32_ln_pg_write(ctx, address, buf, len)
CallWrite(p) ==
  \E ctx \in Contexts, a \in Addresses, n \in 0..MaxLen :
    \E data \in WriteData(n) :
      Start(p, Enter("ln_pg_write", "burst", ctx, a, data, n, dev))

\* lsm6dso32_ln_pg_read(ctx, address, buf, len)
CallRead(p) ==
  \E ctx \in Contexts, a \in Addresses, n \in 0..MaxLen :
    Start(p, Enter("ln_pg_read", "burst", ctx, a, ReadBuffer(n), n, dev))

\* lsm6dso32_ln_pg_write_byte(ctx, address, val)
CallWriteByte(p) ==
  \E a \in ByteAddresses, v \in ByteValues :
    Start(p, lsm6dso32_ln_pg_write_byte("dev", a, <<v>>, dev))

\* lsm6dso32_ln_pg_read_byte(ctx, address, val)
CallReadByte(p) ==
  \E a \in ByteAddresses :
    Start(p, lsm6dso32_ln_pg_read_byte("dev", a, ReadBuffer(1), dev))

\* lsm6dso32_read_reg(ctx, reg, data, 1) called by the application itself
CallReadReg(p) ==
  \E ctx \in Contexts, reg \in {"FUNC_CFG_ACCESS", "PAGE_ADDRESS"} :
    Start(p, RegEnter("read_reg", ctx, reg, [page_addr |-> 0]))

\* lsm6dso32_write_reg(ctx, reg, data, 1) called by the application itself
CallWriteReg(p) ==
  \E ctx \in Contexts :
    Start(p, RegEnter("write_reg", ctx, "PAGE_ADDRESS", [page_addr |-> 0]))

\* the next register transaction of caller p's routine
Transact(p) ==
  /\ Running(loc[p])
  /\ \E st \in StatusChoices(loc[p]), g \in UnknownChoices(loc[p]) :
       LET r == DriverStep(loc[p], dev, st, g)
       IN /\ loc' = [loc EXCEPT ![p] = r.loc]
          /\ dev' = r.dev
          /\ faults' = IF st # 0 THEN faults + 1 ELSE faults
  /\ UNCHANGED <<prev, calls, twin, sched>>

Next ==
  \/ CallWrite(1)
  \/ CallRead(1)
  \/ CallWriteByte(1)
  \/ CallReadByte(1)
  \/ CallReadReg(1)
  \/ CallWriteReg(1)
  \/ Transact(1)

Spec == Init /\ [][Next]_vars

(* ======================== properties of the model ===================== *)
\* positions of the events of trace t that satisfy P
RegIs(e, rw, reg) == e.rw = rw /\ e.reg = reg
Positions(t, rw, reg) == {k \in 1..Len(t) : RegIs(t[k], rw, reg)}
ValuePositions(t) == {k \in 1..Len(t) : t[k].reg = "PAGE_VALUE"}
Faulty(t) == {k \in 1..Len(t) : t[k].st # 0}
\* the (page, offset) cell of a linear address, the space taken as contiguous
LinCell(a) == <<(a \div 256) % 16, a % 256>>
\* a paged call of caller p has returned, having used a real transport
Returned(p) ==
  /\ loc[p].pc = "done" /\ loc[p].ctx = "dev"
  /\ loc[p].fn \in {"ln_pg_write", "ln_pg_read"}
\* the entry lsm6dso32_mem_bank_set(EMBEDDED_FUNC_BANK) returned 0
EntryOk(l) == Len(l.trace) >= 2 /\ l.trace[1].st = 0 /\ l.trace[2].st = 0

(* C1 (as claimed): after a call that started from the canonical idle device
   state, with at most one transport failure, the device is canonical again:
   user bank, page selector 0, page read/write enable off. *)
C1_CanonicalOnReturn ==
  \A p \in Callers :
    (Returned(p) /\ loc[p].canon0 /\ Cardinality(Faulty(loc[p].trace)) <= 1)
      => Canonical(dev)

Nth(S, k) == CHOOSE x \in S : Cardinality({y \in S : y < x}) = k - 1
\* the byte range [a, a+n) crosses a page boundary (offset 255 -> 0)
Crosses(a, n) == n > 0 /\ (a % 256) + n > 256
\* a call of caller p has returned and every transaction of it answered 0
ReturnedClean(p, fn) ==
  Returned(p) /\ loc[p].fn = fn /\ Clean(loc[p])
\* the page selector value most recently written before position k of t
SelectedBefore(t, k) ==
  LET w == {j \in 1..(k - 1) : RegIs(t[j], "W", "PAGE_SEL")}
  IN t[Nth(w, Cardinality(w))].data.page_sel

(* C3: with a transport that never fails, for a byte range that crosses a
   page boundary, a write leaves byte i in the memory cell (page, offset) of
   linear address a+i, and the read of the same range that follows fetches
   byte i from that cell and returns the bytes written. *)
C3_RoundTripAcrossPages ==
  \A p \in Callers :
    LET l == loc[p]
        t == l.trace
        a == l.address
        v == ValuePositions(t)
    IN /\ (ReturnedClean(p, "ln_pg_write") /\ Crosses(a, l.len)) =>
            /\ l.ret = 0
            /\ \A j \in 1..l.len : MemAt(dev, LinCell(a + j - 1)) = l.buf[j]
       /\ (/\ ReturnedClean(p, "ln_pg_read") /\ Crosses(a, l.len)
           /\ prev[p].ok /\ prev[p].fn = "ln_pg_write"
           /\ prev[p].address = a /\ prev[p].len = l.len) =>
            /\ l.ret = 0
            /\ l.buf = prev[p].buf
            /\ Cardinality(v) = l.len
            /\ \A j \in 1..l.len :
                 /\ t[Nth(v, j) - 1].data.page_addr = LinCell(a + j - 1)[2]
                 /\ SelectedBefore(t, Nth(v, j)) = LinCell(a + j - 1)[1]
                 /\ t[Nth(v, j)].data.byte = prev[p].buf[j]

\* a read across a page boundary has returned what the write before it wrote
C3_Witness ==
  \E p \in Callers :
    /\ ReturnedClean(p, "ln_pg_read") /\ Crosses(loc[p].address, loc[p].len)
    /\ prev[p].ok /\ prev[p].fn = "ln_pg_write"
    /\ prev[p].address = loc[p].address /\ prev[p].len = loc[p].len
    /\ loc[p].len >= 2
    /\ loc[p].buf = prev[p].buf

(* C4 (as claimed): a paged write or read returns 0 only if every register
   transaction it issued returned 0, whatever signed statuses the transport
   answers. *)
C4_ZeroOnlyIfAllZero ==
  \A p \in Callers : (Returned(p) /\ loc[p].ret = 0) => Clean(loc[p])

(* C5: once the transport has answered the k-th page-value transaction of a
   burst with a nonzero status, every later transaction of the call is one of
   the bank restore (on FUNC_CFG_ACCESS), so that the call issues exactly k
   page-value transactions. *)
C5_AbortAfterFailedByte ==
  \A p \in Callers :
    LET t == loc[p].trace
        v == ValuePositions(t)
    IN \A k \in 1..Cardinality(v) :
         t[Nth(v, k)].st # 0 =>
           /\ Cardinality(v) = k
           /\ \A j \in (Nth(v, k) + 1)..Len(t) : t[j].reg = "FUNC_CFG_ACCESS"

\* the first byte transaction of a longer burst failed, the call has returned
C5_Witness ==
  \E p \in Callers :
    LET v == ValuePositions(loc[p].trace)
    IN /\ Returned(p) /\ loc[p].len >= 2 /\ Cardinality(v) = 1
       /\ loc[p].trace[Nth(v, 1)].st # 0
       /\ Len(loc[p].trace) > Nth(v, 1)

\* the bytes of [a, a+n) whose in-page offset is 255: after each the page wraps
WrapBytes(a, n) == {j \in 1..n : (a + j - 1) % 256 = 255}

(* C6: a successful read of N > 1 bytes writes the page-address register
   exactly N times, each time immediately before the read of the page-value
   register and with the offset of that byte.  A successful write of N > 1
   bytes writes the page-address register once, before the first byte, and
   between and after the bytes it re-selects the page (read and write of
   PAGE_SEL) only right after a byte at offset 255. *)
C6_OffsetPerByteOnReadOnly ==
  \A p \in Callers :
    LET l == loc[p]
        t == l.trace
        a == l.address
        v == ValuePositions(t)
        addr == Positions(t, "W", "PAGE_ADDRESS")
        resel == {k \in Positions(t, "R", "PAGE_SEL") :
                    \E j \in v : j < k}
    IN /\ (ReturnedClean(p, "ln_pg_read") /\ l.len > 1) =>
            /\ Cardinality(addr) = l.len
            /\ Cardinality(v) = l.len
            /\ \A j \in 1..l.len :
                 /\ Nth(addr, j) = Nth(v, j) - 1
                 /\ t[Nth(addr, j)].data.page_addr = (a + j - 1) % 256
                 /\ t[Nth(v, j)].rw = "R"
       /\ (ReturnedClean(p, "ln_pg_write") /\ l.len > 1) =>
            /\ Cardinality(addr) = 1
            /\ Cardinality(v) = l.len
            /\ Nth(addr, 1) = Nth(v, 1) - 1
            /\ t[Nth(addr, 1)].data.page_addr = a % 256
            /\ Cardinality(resel) = Cardinality(WrapBytes(a, l.len))
            /\ \A k \in resel :
                 /\ k - 1 \in v
                 /\ \E j \in WrapBytes(a, l.len) : Nth(v, j) = k - 1
                 /\ RegIs(t[k + 1], "W", "PAGE_SEL")

\* a successful read of two or more bytes that followed a successful write
\* of as many bytes over a page boundary
C6_Witness ==
  \E p \in Callers :
    /\ ReturnedClean(p, "ln_pg_read") /\ loc[p].len > 1
    /\ prev[p].ok /\ prev[p].fn = "ln_pg_write" /\ prev[p].len = loc[p].len
    /\ Crosses(prev[p].address, prev[p].len)
    /\ Cardinality(Positions(loc[p].trace, "W", "PAGE_ADDRESS")) = loc[p].len

\* the registers of the transactions of trace t, in order
RegsOf(t) == [k \in 1..Len(t) |-> <<t[k].rw, t[k].reg>>]

(* C7 (as claimed): a zero-length burst performs only the bank switch and
   the bank restore, issues no page-value transaction and leaves the device
   canonical. *)
C7_ZeroLengthOnlyBankSteps ==
  \A p \in Callers :
    (Returned(p) /\ Clean(loc[p]) /\ loc[p].len = 0) =>
      /\ \A k \in 1..Len(loc[p].trace) :
           loc[p].trace[k].reg = "FUNC_CFG_ACCESS"
      /\ ValuePositions(loc[p].trace) = {}
      /\ Canonical(dev)

(* C7 (amended): a zero-length burst issues no page-value transaction,
   whatever the transport answers.  When no transaction fails it returns 0
   and leaves the device canonical, but between the bank switch and the bank
   restore it still sets the page enable, selects the page, (for a write)
   sets the page address, resets the page selector and clears the enable. *)
C7_ZeroLengthNoByteTransfer ==
  \A p \in Callers :
    LET l == loc[p]
        setup == <<<<"R", "FUNC_CFG_ACCESS">>, <<"W", "FUNC_CFG_ACCESS">>,
                   <<"R", "PAGE_RW">>, <<"W", "PAGE_RW">>,
                   <<"R", "PAGE_SEL">>, <<"W", "PAGE_SEL">>>>
        finish == <<<<"W", "PAGE_SEL">>, <<"R", "PAGE_RW">>,
                    <<"W", "PAGE_RW">>, <<"R", "FUNC_CFG_ACCESS">>,
                    <<"W", "FUNC_CFG_ACCESS">>>>
    IN /\ l.len = 0 => ValuePositions(l.trace) = {}
       /\ (Returned(p) /\ Clean(l) /\ l.len = 0) =>
            /\ l.ret = 0
            /\ Canonical(dev)
            /\ RegsOf(l.trace) =
                 IF l.fn = "ln_pg_write"
                 THEN setup \o <<<<"W", "PAGE_ADDRESS">>>> \o finish
                 ELSE setup \o finish

\* a zero-length write has returned 0 from a device that was not canonical
C7_Witness ==
  \E p \in Callers :
    /\ ReturnedClean(p, "ln_pg_write") /\ loc[p].len = 0
    /\ ~loc[p].canon0
    /\ Len(loc[p].trace) = 12

(* C8: over a transport that does not fail, lsm6dso32_ln_pg_write_byte(a, v)
   followed by lsm6dso32_ln_pg_read_byte(a) returns v, at a page start, a
   page end and mid-page. *)
C8_ByteRoundTrip ==
  \A p \in Callers :
    (/\ ReturnedClean(p, "ln_pg_read") /\ loc[p].via = "byte"
     /\ prev[p].ok /\ prev[p].fn = "ln_pg_write" /\ prev[p].via = "byte"
     /\ prev[p].address = loc[p].address) =>
       /\ loc[p].ret = 0
       /\ Len(loc[p].buf) = 1
       /\ loc[p].buf[1] = prev[p].buf[1]
       /\ MemAt(dev, LinCell(loc[p].address)) = prev[p].buf[1]

\* the byte 255 written at the page end 0x01FF has been read back
C8_Witness ==
  \E p \in Callers :
    /\ ReturnedClean(p, "ln_pg_read") /\ loc[p].via = "byte"
    /\ prev[p].ok /\ prev[p].fn = "ln_pg_write" /\ prev[p].via = "byte"
    /\ prev[p].address = loc[p].address /\ loc[p].address = 511
    /\ prev[p].buf = <<255>> /\ loc[p].buf = <<255>>

(* C10: lsm6dso32_read_reg and lsm6dso32_write_reg return -1 without invoking
   the transport when ctx is NULL; otherwise they invoke the transport
   exactly once, with the register, buffer and length they were given, and
   return its status unchanged. *)
C10_RegAccessContract ==
  \A p \in Callers :
    LET l == loc[p]
        r == l.lastreg
    IN l.nreg > 0 =>
         IF l.ctx = "NULL"
         THEN r.ret = -1 /\ r.bus = <<>> /\ l.trace = <<>>
         ELSE /\ Len(r.bus) = 1
              /\ r.bus[1].rw = r.rw /\ r.bus[1].reg = r.reg
              /\ r.bus[1].len = 1 /\ r.bus[1].data = r.data
              /\ r.ret = r.bus[1].st
              /\ Len(l.trace) = l.nreg
              /\ l.trace[Len(l.trace)] = r.bus[1]

\* lsm6dso32_write_reg called with a NULL ctx has returned -1, after a call
\* through a real transport returned the transport's nonzero status
C10_Witness ==
  \E p \in Callers :
    /\ loc[p].pc = "done" /\ loc[p].ctx = "NULL" /\ loc[p].ret = -1
    /\ loc[p].fn = "write_reg" /\ loc[p].nreg = 1
    /\ faults > 0

(* ------------- two callers, two devices, run in lock step -------------- *)
\* the multiples of 4096 added to an address to obtain another address with
\* the same low 12 bits (uint16_t address)
AliasOffsets == {4096, 61440}

\* the same routine is called with the same buffer and length on two equal
\* devices, at two addresses that agree in their low 12 bits
PairCall ==
  /\ ~Running(loc[1])
  /\ calls < MaxCalls
  /\ \E fn \in {"ln_pg_write", "ln_pg_read"}, a \in Addresses,
        k \in AliasOffsets, n \in 0..MaxLen :
       LET buf == IF fn = "ln_pg_write" THEN Pattern(calls + 1, n)
                                        ELSE ReadBuffer(n)
       IN /\ loc' = [loc EXCEPT
                       ![1] = Enter(fn, "burst", "dev", a, buf, n, dev)]
          /\ twin' = [twin EXCEPT
                        !.loc = Enter(fn, "burst", "dev", (a + k) % 65536,
                                      buf, n, twin.dev)]
  /\ prev' = [prev EXCEPT ![1] = Summary(loc[1])]
  /\ calls' = calls + 1
  /\ UNCHANGED <<dev, faults, sched>>

\* the transport answers the next transaction of both callers alike
PairTransact ==
  /\ Running(loc[1])
  /\ \E st \in StatusChoices(loc[1]), g \in UnknownChoices(loc[1]) :
       LET r1 == DriverStep(loc[1], dev, st, g)
           r2 == IF Running(twin.loc)
                 THEN DriverStep(twin.loc, twin.dev, st, g)
                 ELSE Out(twin.loc, twin.dev)
       IN /\ loc' = [loc EXCEPT ![1] = r1.loc]
          /\ dev' = r1.dev
          /\ twin' = [loc |-> r2.loc, dev |-> r2.dev]
          /\ faults' = IF st # 0 THEN faults + 1 ELSE faults
  /\ UNCHANGED <<prev, calls, sched>>

NextPair == PairCall \/ PairTransact

SpecPair == Init /\ [][NextPair]_vars

(* C9: only the low 12 bits of the address count.  Two calls of the same
   routine with the same buffer and length, at addresses equal modulo 4096,
   on equal devices and with the transport answering alike, issue the same
   sequence of register transactions (registers and values), leave equal
   devices and buffers and return the same result; the first page selected
   is bits 8-11 of the address and the first offset written is bits 0-7. *)
C9_Low12BitsOnly ==
  LET l == loc[1]
      m == twin.loc
      sel == Positions(l.trace, "W", "PAGE_SEL")
      addr == Positions(l.trace, "W", "PAGE_ADDRESS")
  IN /\ m.trace = l.trace
     /\ m.pc = l.pc
     /\ m.ret = l.ret
     /\ m.buf = l.buf
     /\ twin.dev = dev
     /\ sel # {} =>
          l.trace[Nth(sel, 1)].data.page_sel = (l.address \div 256) % 16
     /\ addr # {} =>
          l.trace[Nth(addr, 1)].data.page_addr = l.address % 256

\* two reads across a page boundary at addresses 0x01FF and 0xF1FF have
\* returned, after two writes there
C9_Witness ==
  /\ ReturnedClean(1, "ln_pg_read") /\ twin.loc.pc = "done"
  /\ loc[1].address = 511 /\ twin.loc.address = 61951
  /\ loc[1].len = 2
  /\ prev[1].ok /\ prev[1].fn = "ln_pg_write" /\ prev[1].address = 511
  /\ prev[1].len = 2
  /\ loc[1].buf = prev[1].buf

(* ---------------------------- termination ------------------------------ *)
\* the register transactions a routine at position l may still issue, at most:
\* the two of a bank switch, the set-up, for each byte left its transfer and
\* the re-selection of the page after it, the reset of the selector, the
\* clearing of the enable and the bank restore
Rank(l) ==
  LET write == l.fn = "ln_pg_write"
      per == IF write THEN 3 ELSE 4   \* transactions of one byte, at most
      tail == 5                       \* rst_wr, clr_rd, clr_wr, bank_rd, bank_wr
      loop == (l.len - l.i) * per + tail
      body == (IF write THEN 5 ELSE 4) + l.len * per + tail
  IN CASE l.pc \in {"idle", "done"} -> 0
       [] l.pc = "reg" -> 1
       [] l.pc = "bank_rd" -> IF l.ra = "exit" THEN 2 ELSE 2 + body
       [] l.pc = "bank_wr" -> IF l.ra = "exit" THEN 1 ELSE 1 + body
       [] l.pc = "rw_rd" -> body
       [] l.pc = "rw_wr" -> body - 1
       [] l.pc = "sel_rd" -> body - 2
       [] l.pc = "sel_wr" -> body - 3
       [] l.pc = "addr_wr" -> IF write THEN body - 4 ELSE loop
       [] l.pc = "val" -> IF write THEN loop ELSE loop - 1
       [] l.pc = "wrap_rd" -> IF write THEN loop - 1 ELSE loop - 2
       [] l.pc = "wrap_wr" -> IF write THEN loop - 2 ELSE loop - 3
       [] l.pc = "rst_wr" -> 5
       [] l.pc = "clr_rd" -> 4
       [] l.pc = "clr_wr" -> 3

\* the burst calls and their transactions (the single-byte wrappers are
\* burst calls of length 1)
NextLive ==
  \/ CallWrite(1)
  \/ CallRead(1)
  \/ Transact(1)

\* a call runs to its end: once entered, the routine goes from one register
\* transaction to the next as soon as the transport returns
SpecLive == Init /\ [][NextLive]_vars /\ WF_vars(Transact(1))

(* C11: every call of lsm6dso32_ln_pg_write or lsm6dso32_ln_pg_read
   terminates, whatever the address, the length and the pattern of transport
   successes and failures: each register transaction strictly decreases a
   bound on the transactions still to come, a call that is not at its end
   can always take its next step, and a call that was entered eventually
   returns (the burst is over, the caller is free to make its next call). *)
C11_Terminates ==
  /\ [](\A p \in Callers :
          /\ Rank(loc[p]) >= 0
          /\ Running(loc[p]) <=> Rank(loc[p]) > 0
          /\ Running(loc[p]) /\ p = 1 => ENABLED Transact(p))
  /\ [][\A p \in Callers :
          (Running(loc[p]) /\ loc'[p] # loc[p]) =>
             /\ Rank(loc'[p]) < Rank(loc[p])
             /\ loc[p].ctx # "NULL" =>
                  Len(loc'[p].trace) = Len(loc[p].trace) + 1]_vars
  /\ (Running(loc[1]) ~> loc[1].pc = "done")

\* a read of MaxLen bytes across a page boundary returned after a transport
\* failure on its last byte
C11_Witness ==
  \E p \in Callers :
    /\ Returned(p) /\ loc[p].fn = "ln_pg_read" /\ loc[p].len = MaxLen
    /\ Crosses(loc[p].address, loc[p].len)
    /\ loc[p].ret # 0
    /\ Cardinality(ValuePositions(loc[p].trace)) = MaxLen

(* ------------- two callers on one device, not serialized --------------- *)
\* the addresses the concurrent callers use: a page start and a page end
ConcAddresses == {256, 511}

\* caller p enters a paged routine, whether or not the other caller is in one
\* (the callers being alike, the first call is caller 1's)
ConcCall(p) ==
  /\ ~Running(loc[p])
  /\ calls < MaxCalls
  /\ calls = 0 => p = 1
  /\ \E fn \in {"ln_pg_write", "ln_pg_read"}, a \in ConcAddresses,
        n \in 1..MaxLen :
       LET buf == IF fn = "ln_pg_write" THEN Pattern(calls + 1, n)
                                        ELSE ReadBuffer(n)
       IN loc' = [loc EXCEPT ![p] = Enter(fn, "burst", "dev", a, buf, n, dev)]
  /\ prev' = [prev EXCEPT ![p] = Summary(loc[p])]
  /\ calls' = calls + 1
  /\ UNCHANGED <<dev, faults, twin, sched>>

\* the next register transaction of caller p's routine; a caller is marked
\* (mixed) when a transaction is issued while both callers are in a routine.
\* The scheduler passes from one caller to the other at most MaxSwitches times.
\* The transport answers 0: the calls of interest are those that return 0
\* (a failing transport under serialized callers is what Spec explores).
ConcTransact(p) ==
  /\ Running(loc[p])
  /\ sched.last \in {0, p} \/ sched.switches < MaxSwitches
  /\ sched' = [last |-> p,
               switches |-> IF sched.last \in {0, p} THEN sched.switches
                            ELSE sched.switches + 1]
  /\ \E st \in {0}, g \in UnknownChoices(loc[p]) :
       LET r == DriverStep(loc[p], dev, st, g)
           both == \E q \in Callers \ {p} : Running(loc[q])
       IN /\ loc' = [q \in Callers |->
                       IF q = p THEN [r.loc EXCEPT !.mixed = @ \/ both]
                       ELSE IF Running(loc[q])
                            THEN [loc[q] EXCEPT !.mixed = TRUE]
                            ELSE loc[q]]
          /\ dev' = r.dev
          /\ faults' = IF st # 0 THEN faults + 1 ELSE faults
  /\ UNCHANGED <<prev, calls, twin>>

NextConc == \E p \in Callers : ConcCall(p) \/ ConcTransact(p)

SpecConc == Init /\ [][NextConc]_vars

\* the enable value a routine sets for its burst
ModeOf(fn) == IF fn = "ln_pg_write" THEN PAGE_WRITE_ENABLE ELSE PAGE_READ_ENABLE

\* the k-th page-value transaction of the call in l found the device with the
\* wrong bank, the wrong enable, or the window on another cell than that of
\* linear address a + k - 1
MisdirectedAt(l, k) ==
  LET e == l.trace[Nth(ValuePositions(l.trace), k)]
  IN \/ e.at.bank # LSM6DSO32_EMBEDDED_FUNC_BANK
     \/ e.at.page_rw # ModeOf(l.fn)
     \/ <<e.at.page_sel, e.at.page_addr>> # LinCell(l.address + k - 1)

Misdirected(l) ==
  \E k \in 1..Cardinality(ValuePositions(l.trace)) : MisdirectedAt(l, k)

(* C12: paged bursts are not safe to run concurrently.  A call whose
   transactions all answered 0 can have accessed the page value with the
   wrong bank, enable or cell only if a transaction was issued while both
   callers were inside a paged routine; and when the transactions of two
   calls do interleave, such a state is reachable with both calls
   returning 0 (the witness). *)
C12_MisdirectedOnlyWhenInterleaved ==
  \A p \in Callers :
    (Returned(p) /\ Clean(loc[p]) /\ Misdirected(loc[p])) => loc[p].mixed

\* two interleaved writes have both returned 0 with no failed transaction,
\* and a byte of one of them went to a cell its caller did not address
C12_Witness ==
  \E p \in Callers : \E q \in Callers \ {p} :
    /\ ReturnedClean(p, "ln_pg_write") /\ ReturnedClean(q, "ln_pg_write")
    /\ loc[p].ret = 0 /\ loc[q].ret = 0
    /\ \E k \in 1..loc[p].len :
         LET e == loc[p].trace[Nth(ValuePositions(loc[p].trace), k)]
         IN /\ e.at.bank = LSM6DSO32_EMBEDDED_FUNC_BANK
            /\ e.at.page_rw = PAGE_WRITE_ENABLE
            /\ <<e.at.page_sel, e.at.page_addr>> # LinCell(loc[p].address + k - 1)
            /\ MemAt(dev, LinCell(loc[p].address + k - 1)) # loc[p].buf[k]

(* ----------------------- order of the transactions --------------------- *)
\* the field of a register value that a routine sets
FieldOf(e) ==
  CASE e.reg = "FUNC_CFG_ACCESS" -> e.data.reg_access
    [] e.reg = "PAGE_RW"         -> e.data.page_rw
    [] e.reg = "PAGE_SEL"        -> e.data.page_sel
    [] e.reg = "PAGE_ADDRESS"    -> e.data.page_addr
    [] e.reg = "PAGE_VALUE"      -> e.data.byte
\* a transaction as <<direction, register, value written>> (-1 for a read)
StepOf(e) == <<e.rw, e.reg, IF e.rw = "W" THEN FieldOf(e) ELSE -1>>
StepsOf(t) == [k \in 1..Len(t) |-> StepOf(t[k])]
IsPrefix(s, t) == Len(s) <= Len(t) /\ \A k \in 1..Len(s) : s[k] = t[k]

\* the transactions of bytes j..n of a write burst at linear address a
RECURSIVE WriteBurstSteps(_, _, _, _)
WriteBurstSteps(a, buf, j, n) ==
  IF j > n THEN <<>>
  ELSE <<<<"W", "PAGE_VALUE", buf[j]>>>>
       \o (IF (a + j - 1) % 256 = 255
           THEN <<<<"R", "PAGE_SEL", -1>>,
                  <<"W", "PAGE_SEL", LinCell(a + j)[1]>>>>
           ELSE <<>>)
       \o WriteBurstSteps(a, buf, j + 1, n)

\* the steps of a successful write, in the order the specification gives
WriteSteps(a, buf, n) ==
  <<<<"R", "FUNC_CFG_ACCESS", -1>>,
    <<"W", "FUNC_CFG_ACCESS", LSM6DSO32_EMBEDDED_FUNC_BANK>>,
    <<"R", "PAGE_RW", -1>>, <<"W", "PAGE_RW", PAGE_WRITE_ENABLE>>,
    <<"R", "PAGE_SEL", -1>>, <<"W", "PAGE_SEL", LinCell(a)[1]>>,
    <<"W", "PAGE_ADDRESS", LinCell(a)[2]>>>>
  \o WriteBurstSteps(a, buf, 1, n)
  \o <<<<"W", "PAGE_SEL", 0>>,
       <<"R", "PAGE_RW", -1>>, <<"W", "PAGE_RW", PAGE_RW_DISABLE>>,
       <<"R", "FUNC_CFG_ACCESS", -1>>,
       <<"W", "FUNC_CFG_ACCESS", LSM6DSO32_USER_BANK>>>>

(* C13: a successful lsm6dso32_ln_pg_write issues, in this order: the bank
   switch to the embedded-function bank, the page write enable, the selection
   of the target page, the in-page address, the bytes in buffer order (the
   incremented page being re-selected after a byte at offset 255), the reset
   of the page selector to 0, the clearing of the enable and the bank restore.
   While no transaction has failed, the transactions issued so far are the
   first of that sequence; the call returns 0 when it has issued them all. *)
C13_WriteStepOrder ==
  \A p \in Callers :
    LET l == loc[p]
        want == WriteSteps(l.address, l.buf, l.len)
    IN (l.fn = "ln_pg_write" /\ l.ctx = "dev" /\ Clean(l)) =>
         /\ IsPrefix(StepsOf(l.trace), want)
         /\ l.pc = "done" <=> StepsOf(l.trace) = want
         /\ l.pc = "done" => l.ret = 0

\* a write of MaxLen bytes from the last offset of page 15 has returned 0
C13_Witness ==
  \E p \in Callers :
    /\ ReturnedClean(p, "ln_pg_write") /\ loc[p].ret = 0
    /\ loc[p].address = 8191 /\ loc[p].len = MaxLen
    /\ Len(loc[p].trace) = 14 + MaxLen
    /\ ~loc[p].canon0

(* ---------------------------- page cursor ------------------------------ *)
\* the cell the page window stands on when transaction e is issued
CellAt(e) == <<e.at.page_sel, e.at.page_addr>>

(* C14 (as claimed): page-cursor invariant.  The k-th page-value transaction
   of a burst at linear address a finds the device's page selector on the
   page of linear address a + k - 1 and the page address on its offset: the
   cursor advances by one per byte, and after offset 255 the next page has
   been selected on the device before the next byte is transferred. *)
C14_PageCursor ==
  \A p \in Callers :
    LET l == loc[p]
        v == ValuePositions(l.trace)
    IN l.fn \in {"ln_pg_write", "ln_pg_read"} =>
         \A k \in 1..Cardinality(v) :
           CellAt(l.trace[Nth(v, k)]) = LinCell(l.address + k - 1)

\* the position among the page-value transactions of t of the one at k
ByteIndex(t, k) == Cardinality({j \in ValuePositions(t) : j <= k})

(* C15: lsm6dso32_ln_pg_write writes the in-page offset register once, before
   the first byte, and never again: what follows a byte is the next byte,
   the page selector (read then written after a byte at offset 255, or reset
   at the end) or the bank restore.  lsm6dso32_ln_pg_read writes the offset
   register immediately before each read of the page-value register.  This
   holds at every point of a call, whatever the transport answers. *)
C15_OffsetRewrittenByReadOnly ==
  \A p \in Callers :
    LET l == loc[p]
        t == l.trace
        v == ValuePositions(t)
        addr == Positions(t, "W", "PAGE_ADDRESS")
    IN /\ l.fn = "ln_pg_write" =>
            /\ Cardinality(addr) <= 1
            /\ \A k \in v : addr # {} /\ \A j \in addr : j < k /\ t[j].st = 0
            /\ \A k \in v : k < Len(t) =>
                 /\ t[k + 1].reg \in {"PAGE_VALUE", "PAGE_SEL", "FUNC_CFG_ACCESS"}
                 /\ RegIs(t[k + 1], "R", "PAGE_SEL") <=>
                      /\ t[k].st = 0
                      /\ LinCell(l.address + ByteIndex(t, k) - 1)[2] = 255
                 /\ RegIs(t[k + 1], "R", "PAGE_SEL") /\ k + 1 < Len(t) =>
                      t[k + 2].reg \in {"PAGE_SEL", "FUNC_CFG_ACCESS"}
       /\ l.fn = "ln_pg_read" =>
            /\ \A k \in v : /\ k > 1
                            /\ RegIs(t[k - 1], "W", "PAGE_ADDRESS")
                            /\ t[k - 1].st = 0
                            /\ t[k].rw = "R"
            /\ Cardinality(addr) >= Cardinality(v)

\* a write of MaxLen bytes over a page boundary has returned 0 after a read of
\* two or more bytes did
C15_Witness ==
  \E p \in Callers :
    /\ ReturnedClean(p, "ln_pg_write") /\ loc[p].len = MaxLen
    /\ Crosses(loc[p].address, loc[p].len)
    /\ Cardinality(Positions(loc[p].trace, "W", "PAGE_ADDRESS")) = 1
    /\ Cardinality(Positions(loc[p].trace, "W", "PAGE_SEL")) = 3
    /\ prev[p].ok /\ prev[p].fn = "ln_pg_read" /\ prev[p].len >= 2

(* C16: every transaction of a paged read or write on PAGE_RW, PAGE_SEL,
   PAGE_ADDRESS or PAGE_VALUE is issued while the device's bank is the
   embedded-function bank: a write of that bank to FUNC_CFG_ACCESS was
   answered 0 before the first of them, and the routine writes the user bank
   to FUNC_CFG_ACCESS only after the last. *)
C16_PageAccessInEmbeddedBank ==
  \A p \in Callers :
    LET l == loc[p]
        t == l.trace
        page == {k \in 1..Len(t) : t[k].reg \in PageRegs}
        bankW(b) == {k \in Positions(t, "W", "FUNC_CFG_ACCESS") :
                       t[k].data.reg_access = b}
    IN l.fn \in {"ln_pg_write", "ln_pg_read"} =>
         /\ \A k \in page : t[k].at.bank = LSM6DSO32_EMBEDDED_FUNC_BANK
         /\ \A k \in page :
              \E j \in bankW(LSM6DSO32_EMBEDDED_FUNC_BANK) : j < k /\ t[j].st = 0
         /\ \A k \in page : \A j \in bankW(LSM6DSO32_USER_BANK) : k < j
         /\ (l.pc = "done" /\ t # <<>> /\ t[Len(t)].st = 0 /\ page # {}) =>
              dev.fca.reg_access = LSM6DSO32_USER_BANK

\* a read has returned 0 that found the device in the embedded-function bank,
\* where an earlier call had left it
C16_Witness ==
  \E p \in Callers :
    /\ ReturnedClean(p, "ln_pg_read") /\ loc[p].ret = 0 /\ loc[p].len >= 1
    /\ loc[p].trace[1].at.bank = LSM6DSO32_EMBEDDED_FUNC_BANK
    /\ dev.fca.reg_access = LSM6DSO32_USER_BANK

(* C17 (as claimed): the transfer mode selects the enable.  Every page-value
   transaction of lsm6dso32_ln_pg_write finds page_rw = 0x02 on the device and
   every one of lsm6dso32_ln_pg_read finds page_rw = 0x01; a call that returns
   0 leaves page_rw = 0x00; read and write enable are never both set. *)
C17_EnableMatchesMode ==
  \A p \in Callers :
    LET l == loc[p]
        t == l.trace
    IN l.fn \in {"ln_pg_write", "ln_pg_read"} =>
         /\ \A k \in ValuePositions(t) : t[k].at.page_rw = ModeOf(l.fn)
         /\ (l.pc = "done" /\ Clean(l) /\ l.ctx = "dev") =>
              EmbRegs(dev)["PAGE_RW"].page_rw = PAGE_RW_DISABLE
         /\ EmbRegs(dev)["PAGE_RW"].page_rw
              \in {PAGE_RW_DISABLE, PAGE_READ_ENABLE, PAGE_WRITE_ENABLE}

\* the transactions of t on register reg in direction rw, counted
Count(t, rw, reg) == Cardinality(Positions(t, rw, reg))

(* C18: the driver does not retry.  Within one call no statement issues its
   transaction twice for the same value of the loop counter, whatever the
   transport answered the first time; byte k of the buffer is transferred by
   the k-th page-value transaction and by no other, a failed page-value
   transaction is the last one, and no register is accessed more often than
   in a call that succeeds. *)
C18_NoRetry ==
  \A p \in Callers :
    LET l == loc[p]
        t == l.trace
        v == ValuePositions(t)
    IN l.fn \in {"ln_pg_write", "ln_pg_read"} =>
         /\ Len(l.steps) = Len(t)
         /\ \A j, k \in 1..Len(t) : j < k => l.steps[j] # l.steps[k]
         /\ Cardinality(v) <= l.len
         /\ \A k \in 1..Cardinality(v) :
              IF l.fn = "ln_pg_write"
              THEN t[Nth(v, k)].data.byte = l.buf[k]
              ELSE /\ t[Nth(v, k) - 1].data.page_addr = LinCell(l.address + k - 1)[2]
                   /\ t[Nth(v, k)].st = 0 => l.buf[k] = t[Nth(v, k)].data.byte
         /\ \A k \in v : t[k].st # 0 => k = Nth(v, Cardinality(v))
         /\ Count(t, "R", "FUNC_CFG_ACCESS") <= 2
         /\ Count(t, "W", "FUNC_CFG_ACCESS") <= 2
         /\ Count(t, "R", "PAGE_RW") <= 2
         /\ Count(t, "W", "PAGE_RW") <= 2
         /\ Count(t, "R", "PAGE_SEL") <= 1 + Cardinality(WrapBytes(l.address, l.len))
         /\ Count(t, "W", "PAGE_SEL") <= 2 + Cardinality(WrapBytes(l.address, l.len))
         /\ Count(t, "W", "PAGE_ADDRESS") <= IF l.fn = "ln_pg_write" THEN 1 ELSE l.len

\* a burst of MaxLen bytes has returned after the re-selection of the page
\* that follows its first byte was answered with a nonzero status
C18_Witness ==
  \E p \in Callers :
    LET t == loc[p].trace
    IN /\ Returned(p) /\ loc[p].len = MaxLen /\ loc[p].ret # 0
       /\ Cardinality(ValuePositions(t)) = 1
       /\ \E k \in Positions(t, "W", "PAGE_SEL") :
            /\ t[k].st # 0 /\ k - 2 \in ValuePositions(t)
            /\ Len(t) = k + 2

(* ============ the configuration functions and their callers ============ *)
\* lsm6dso32_odr_xl_t values the callers pass: off (0x00), high performance
\* (0x0A), low power (0x11: bit 4 set), ultra low power (0x23: bit 5 set)
XlOdrValues == {0, 10, 17, 35}
LSM6DSO32_XL_ODR_OFF == 0

(* ---------------- lsm6dso32_xl_data_rate_set (lines 240-303) ----------- *)
\* ret = <register call>; every later statement stands under if (ret == 0)
xl_data_rate_set_next(l, r, pc) ==
  [l EXCEPT !.ret = r, !.pc = IF r = 0 THEN pc ELSE "done"]

\* faulty variant: the data rate read from the device is kept in the first
\* write of CTRL1_XL
xl_data_rate_set_c1_rd_KeepOdr(l, d, st, g) ==
  LET r == lsm6dso32_read_reg(l.ctx, d, "CTRL1_XL", l.ctrl1_xl, 1, st, g)
      l1 == Log(l, r, "R", "CTRL1_XL")
  IN Out(xl_data_rate_set_next([l1 EXCEPT !.ctrl1_xl = r.data], r.ret,
                               "c1_off"), r.dev)

\* lines 249-250, 254
xl_data_rate_set_c1_rd(l, d, st, g) ==
  LET r == lsm6dso32_read_reg(l.ctx, d, "CTRL1_XL", l.ctrl1_xl, 1, st, g)
      l1 == Log(l, r, "R", "CTRL1_XL")
      c == IF r.ret = 0
           THEN [r.data EXCEPT !.odr_xl = LSM6DSO32_XL_ODR_OFF % 16]
           ELSE r.data
  IN Out(xl_data_rate_set_next([l1 EXCEPT !.ctrl1_xl = c], r.ret, "c1_off"),
         r.dev)

\* lines 255-256
xl_data_rate_set_c1_off(l, d, st, g) ==
  LET r == lsm6dso32_write_reg(l.ctx, d, "CTRL1_XL", l.ctrl1_xl, 1, st)
  IN Out(xl_data_rate_set_next(Log(l, r, "W", "CTRL1_XL"), r.ret, "fca_rd"),
         r.dev)

\* lines 261-262
xl_data_rate_set_fca_rd(l, d, st, g) ==
  LET r == lsm6dso32_read_reg(l.ctx, d, "FUNC_CFG_ACCESS", l.reg, 1, st, g)
      l1 == Log(l, r, "R", "FUNC_CFG_ACCESS")
  IN Out(xl_data_rate_set_next([l1 EXCEPT !.reg = r.data], r.ret, "c5_rd"),
         r.dev)

\* faulty variant: the status is added to ret and the sequence goes on
xl_data_rate_set_c5_rd_Additive(l, d, st, g) ==
  LET r == lsm6dso32_read_reg(l.ctx, d, "CTRL5_C", l.ctrl5_c, 1, st, g)
      l1 == Log(l, r, "R", "CTRL5_C")
      c == [r.data EXCEPT !.xl_ulp_en = (l.val \div 32) % 2]
  IN Out([l1 EXCEPT !.ctrl5_c = c, !.ret = l.ret + r.ret, !.pc = "c5_wr"],
         r.dev)

\* lines 267, 272
xl_data_rate_set_c5_rd(l, d, st, g) ==
  LET r == lsm6dso32_read_reg(l.ctx, d, "CTRL5_C", l.ctrl5_c, 1, st, g)
      l1 == Log(l, r, "R", "CTRL5_C")
      c == IF r.ret = 0
           THEN [r.data EXCEPT !.xl_ulp_en = (l.val \div 32) % 2]
           ELSE r.data
  IN Out(xl_data_rate_set_next([l1 EXCEPT !.ctrl5_c = c], r.ret, "c5_wr"),
         r.dev)

\* lines 273-274
xl_data_rate_set_c5_wr(l, d, st, g) ==
  LET r == lsm6dso32_write_reg(l.ctx, d, "CTRL5_C", l.ctrl5_c, 1, st)
  IN Out(xl_data_rate_set_next(Log(l, r, "W", "CTRL5_C"), r.ret, "c6_rd"),
         r.dev)

\* lines 279, 284
xl_data_rate_set_c6_rd(l, d, st, g) ==
  LET r == lsm6dso32_read_reg(l.ctx, d, "CTRL6_C", l.ctrl6_c, 1, st, g)
      l1 == Log(l, r, "R", "CTRL6_C")
      c == IF r.ret = 0
           THEN [r.data EXCEPT !.xl_hm_mode = (l.val \div 16) % 2]
           ELSE r.data
  IN Out(xl_data_rate_set_next([l1 EXCEPT !.ctrl6_c = c], r.ret, "c6_wr"),
         r.dev)

\* lines 285-286
xl_data_rate_set_c6_wr(l, d, st, g) ==
  LET r == lsm6dso32_write_reg(l.ctx, d, "CTRL6_C", l.ctrl6_c, 1, st)
  IN Out(xl_data_rate_set_next(Log(l, r, "W", "CTRL6_C"), r.ret, "c1_rd2"),
         r.dev)

\* lines 291-292, 297
xl_data_rate_set_c1_rd2(l, d, st, g) ==
  LET r == lsm6dso32_read_reg(l.ctx, d, "CTRL1_XL", l.ctrl1_xl, 1, st, g)
      l1 == Log(l, r, "R", "CTRL1_XL")
      c == IF r.ret = 0 THEN [r.data EXCEPT !.odr_xl = l.val % 16]
           ELSE r.data
  IN Out(xl_data_rate_set_next([l1 EXCEPT !.ctrl1_xl = c], r.ret, "c1_wr"),
         r.dev)

\* lines 298-299, 302
xl_data_rate_set_c1_wr(l, d, st, g) ==
  LET r == lsm6dso32_write_reg(l.ctx, d, "CTRL1_XL", l.ctrl1_xl, 1, st)
  IN Out(xl_data_rate_set_next(Log(l, r, "W", "CTRL1_XL"), r.ret, "done"),
         r.dev)

lsm6dso32_xl_data_rate_set(l, d, st, g) ==
  CASE l.pc = "c1_rd"  -> xl_data_rate_set_c1_rd(l, d, st, g)
    [] l.pc = "c1_off" -> xl_data_rate_set_c1_off(l, d, st, g)
    [] l.pc = "fca_rd" -> xl_data_rate_set_fca_rd(l, d, st, g)
    [] l.pc = "c5_rd"  -> xl_data_rate_set_c5_rd(l, d, st, g)
    [] l.pc = "c5_wr"  -> xl_data_rate_set_c5_wr(l, d, st, g)
    [] l.pc = "c6_rd"  -> xl_data_rate_set_c6_rd(l, d, st, g)
    [] l.pc = "c6_wr"  -> xl_data_rate_set_c6_wr(l, d, st, g)
    [] l.pc = "c1_rd2" -> xl_data_rate_set_c1_rd2(l, d, st, g)
    [] l.pc = "c1_wr"  -> xl_data_rate_set_c1_wr(l, d, st, g)

(* ------------------ lsm6dso32_mem_bank_set, called directly ------------ *)
lsm6dso32_mem_bank_set(l, d, st, g) ==
  IF l.pc = "bank_rd" THEN mem_bank_set_read(l, d, st, g)
  ELSE mem_bank_set_write(l, d, st, g)

(* ------------------ lsm6dso32_mem_bank_get (lines 1497-1526) ----------- *)
\* faulty variant: the field is stored as read, without the switch
lsm6dso32_mem_bank_get_NoDefault(l, d, st, g) ==
  LET r == lsm6dso32_read_reg(l.ctx, d, "FUNC_CFG_ACCESS", l.reg, 1, st, 0)
      reg == IF r.ret = 0 THEN r.data ELSE [reg_access |-> g, other |-> 0]
      l1 == Log(l, r, "R", "FUNC_CFG_ACCESS")
  IN Out([l1 EXCEPT !.reg = reg, !.val = reg.reg_access, !.ret = r.ret,
                    !.pc = "done"], r.dev)

\* reg is a local without initializer: when the read did not fill it, the
\* switch works on an indeterminate reg_access, g
lsm6dso32_mem_bank_get(l, d, st, g) ==
  LET r == lsm6dso32_read_reg(l.ctx, d, "FUNC_CFG_ACCESS", l.reg, 1, st, 0)
      reg == IF r.ret = 0 THEN r.data ELSE [reg_access |-> g, other |-> 0]
      val == CASE reg.reg_access = LSM6DSO32_USER_BANK ->
                    LSM6DSO32_USER_BANK
               [] reg.reg_access = LSM6DSO32_SENSOR_HUB_BANK ->
                    LSM6DSO32_SENSOR_HUB_BANK
               [] reg.reg_access = LSM6DSO32_EMBEDDED_FUNC_BANK ->
                    LSM6DSO32_EMBEDDED_FUNC_BANK
               [] OTHER -> LSM6DSO32_USER_BANK
      l1 == Log(l, r, "R", "FUNC_CFG_ACCESS")
  IN Out([l1 EXCEPT !.reg = reg, !.val = val, !.ret = r.ret, !.pc = "done"],
         r.dev)

(* ------------------------- the callers --------------------------------- *)
\* a caller of the configuration functions: the locals of the paged routines
\* and those of lsm6dso32_xl_data_rate_set (lines 243-245), val (*val for
\* the getter)
CfgLoc ==
  IdleLoc @@ [ctrl1_xl |-> ZeroReg("CTRL1_XL"), ctrl5_c |-> ZeroReg("CTRL5_C"),
              ctrl6_c |-> ZeroReg("CTRL6_C"), val |-> 0]

\* the device after power-on, with the control registers and with the
\* register file the pattern 3 of reg_access selects
CfgDevInit ==
  [DevInit EXCEPT
     !.regs = [b \in RegAccessPatterns |-> [n \in PageRegs \cup CtrlRegs |->
                 IF b \in Banks /\ n \in PageRegs THEN DevInit.regs[b][n]
                 ELSE ZeroReg(n)]]]

InitCfg ==
  /\ loc = [p \in Callers |-> IdleLoc]
  /\ prev = [p \in Callers |-> Summary(IdleLoc)]
  /\ dev = CfgDevInit
  /\ calls = 0
  /\ faults = 0
  /\ twin = [loc |-> IdleLoc, dev |-> DevInit]
  /\ sched = [last |-> 0, switches |-> 0]

\* lsm6dso32_mem_bank_set(ctx, val)
CallBankSet(p) ==
  \E ctx \in Contexts, val \in Banks :
    Start(p, [CfgLoc EXCEPT !.pc = "bank_rd", !.fn = "mem_bank_set",
                             !.ctx = ctx, !.bank_val = val, !.ra = "call",
                             !.canon0 = Canonical(dev)])

\* lsm6dso32_mem_bank_get(ctx, &val); 255 stands for the caller's variable
\* before the call
CallBankGet(p) ==
  \E ctx \in Contexts :
    Start(p, [CfgLoc EXCEPT !.pc = "get_rd", !.fn = "mem_bank_get",
                             !.ctx = ctx, !.val = 255])

\* lsm6dso32_xl_data_rate_set(ctx, val)
CallDataRateSet(p) ==
  \E ctx \in Contexts, val \in XlOdrValues :
    Start(p, [CfgLoc EXCEPT !.pc = "c1_rd", !.fn = "xl_data_rate_set",
                             !.ctx = ctx, !.val = val])

\* lsm6dso32_write_reg(ctx, LSM6DSO32_FUNC_CFG_ACCESS, &reg, 1) called by the
\* application with any content of the reg_access field
CallWriteAccess(p) ==
  \E k \in RegAccessPatterns :
    Start(p, RegEnter("write_reg", "dev", "FUNC_CFG_ACCESS",
                      [reg_access |-> k, other |-> 0]))

CfgStep(l, d, st, g) ==
  CASE l.fn = "mem_bank_set"     -> lsm6dso32_mem_bank_set(l, d, st, g)
    [] l.fn = "mem_bank_get"     -> lsm6dso32_mem_bank_get(l, d, st, g)
    [] l.fn = "xl_data_rate_set" -> lsm6dso32_xl_data_rate_set(l, d, st, g)
    [] l.fn = "write_reg"        -> RegStep(l, d, st, g)

\* the next register transaction of caller p's configuration call
CfgTransact(p) ==
  /\ Running(loc[p])
  /\ \E st \in StatusChoices(loc[p]), g \in RegAccessPatterns :
       LET r == CfgStep(loc[p], dev, st, g)
       IN /\ loc' = [loc EXCEPT ![p] = r.loc]
          /\ dev' = r.dev
          /\ faults' = IF st # 0 THEN faults + 1 ELSE faults
  /\ UNCHANGED <<prev, calls, twin, sched>>

NextCfg ==
  \/ CallBankSet(1)
  \/ CallBankGet(1)
  \/ CallDataRateSet(1)
  \/ CallWriteAccess(1)
  \/ CfgTransact(1)

SpecCfg == InitCfg /\ [][NextCfg]_vars

\* a configuration call of caller p has returned
CfgReturned(p, fn) == loc[p].pc = "done" /\ loc[p].fn = fn
\* the register transactions the routine makes when none of them fails
FullLength(fn) == IF fn = "mem_bank_set" THEN 2 ELSE 9
RECURSIVE StatusSum(_)
StatusSum(t) == IF t = <<>> THEN 0 ELSE t[1].st + StatusSum(Tail(t))

(* C19 (as claimed): in lsm6dso32_mem_bank_set and
   lsm6dso32_xl_data_rate_set a failed register transaction does not end the
   sequence: a call on a real transport issues all its transactions and
   returns the sum of their statuses. *)
C19_AdditiveAccumulation ==
  \A p \in Callers : \A fn \in {"mem_bank_set", "xl_data_rate_set"} :
    (CfgReturned(p, fn) /\ loc[p].ctx = "dev")
      => /\ Len(loc[p].trace) = FullLength(fn)
         /\ loc[p].ret = StatusSum(loc[p].trace)

(* C19 (amended): lsm6dso32_mem_bank_set and lsm6dso32_xl_data_rate_set
   short-circuit.  At every point of a call only the last transaction issued
   may have failed; the call returns the status of its last transaction (or
   the NULL-context error, with no transaction at all), and it has issued
   the whole sequence exactly when that status is 0 or belongs to the last
   step. *)
C19_ShortCircuit ==
  \A p \in Callers : \A fn \in {"mem_bank_set", "xl_data_rate_set"} :
    LET l == loc[p]
        t == l.trace
    IN l.fn = fn =>
         /\ \A k \in 1..(Len(t) - 1) : t[k].st = 0
         /\ Len(t) <= FullLength(fn)
         /\ (Running(l) /\ l.ctx = "dev") => Clean(l)
         /\ (CfgReturned(p, fn) /\ l.ctx = "dev") =>
              /\ t # <<>> /\ l.ret = t[Len(t)].st
              /\ l.ret = 0 => Len(t) = FullLength(fn)
              /\ Len(t) < FullLength(fn) => l.ret # 0
         /\ (CfgReturned(p, fn) /\ l.ctx = "NULL") =>
              t = <<>> /\ l.ret = NULL_CTX_ERROR

\* lsm6dso32_xl_data_rate_set has returned nonzero after its fifth
\* transaction failed, four short of the whole sequence
C19_Witness ==
  \E p \in Callers :
    /\ CfgReturned(p, "xl_data_rate_set") /\ loc[p].ctx = "dev"
    /\ Len(loc[p].trace) = 5 /\ loc[p].trace[5].st # 0
    /\ loc[p].ret # 0

(* C20: lsm6dso32_mem_bank_get stores one of the three bank values whatever
   the reg_access field holds: the value read when it is one of them,
   USER_BANK for any other pattern (and for whatever the local holds when the
   read failed, if that is no bank value); it returns the status of its one
   register read, 0 for an unrecognized pattern read successfully. *)
C20_BankGetFallsBack ==
  \A p \in Callers :
    LET l == loc[p]
        t == l.trace
    IN CfgReturned(p, "mem_bank_get") =>
         /\ l.val \in Banks
         /\ l.nreg = 1 /\ l.lastreg.rw = "R"
         /\ l.lastreg.reg = "FUNC_CFG_ACCESS"
         /\ l.ret = l.lastreg.ret
         /\ l.reg.reg_access \in Banks => l.val = l.reg.reg_access
         /\ l.reg.reg_access \notin Banks => l.val = LSM6DSO32_USER_BANK
         /\ l.ctx = "dev" =>
              /\ Len(t) = 1 /\ l.ret = t[1].st
              /\ t[1].st = 0 =>
                   /\ l.reg.reg_access = t[1].at.bank
                   /\ l.ret = 0

\* the register held the pattern 3, the read succeeded, and the call has
\* returned 0 with USER_BANK stored
C20_Witness ==
  \E p \in Callers :
    /\ CfgReturned(p, "mem_bank_get") /\ loc[p].ctx = "dev"
    /\ loc[p].trace[1].st = 0 /\ loc[p].trace[1].at.bank = 3
    /\ loc[p].ret = 0 /\ loc[p].val = LSM6DSO32_USER_BANK

(* ==================== bursts of the greatest length =================== *)
\* uint8_t len: the longest burst a call can ask for
UINT8_MAX == 255
\* the lengths of the long bursts: one byte, and the two greatest
LongLens == {1, UINT8_MAX - 1, UINT8_MAX}
\* where the long bursts start: offset 0 of page 1 (0x0100), offset 1
\* (0x0101), mid-page (0x0180), the last offset (0x01FF), and the last offset
\* of the last page (0x0FFF)
LongAddresses == {256, 257, 384, 511, 4095}
LongData(n) == [j \in 1..n |-> j % 256]

\* lsm6dso32_ln_pg_write(ctx, address, buf, len), the first call made
CallLongWrite(p) ==
  /\ calls = 0
  /\ \E a \in LongAddresses, n \in LongLens :
       Start(p, Enter("ln_pg_write", "burst", "dev", a, LongData(n), n, dev))

\* lsm6dso32_ln_pg_read(ctx, address, buf, len), the first call made
CallLongRead(p) ==
  /\ calls = 0
  /\ \E a \in LongAddresses, n \in LongLens :
       Start(p, Enter("ln_pg_read", "burst", "dev", a, ReadBuffer(n), n, dev))

\* the next register transaction of a long burst, the transport answering 0
LongTransact(p) ==
  /\ Running(loc[p])
  /\ \E st \in {0}, g \in UnknownChoices(loc[p]) :
       LET r == DriverStep(loc[p], dev, st, g)
       IN /\ loc' = [loc EXCEPT ![p] = r.loc]
          /\ dev' = r.dev
  /\ UNCHANGED <<prev, calls, faults, twin, sched>>

NextLong ==
  \/ CallLongWrite(1)
  \/ CallLongRead(1)
  \/ LongTransact(1)

SpecLong == Init /\ [][NextLong]_vars

\* the transactions of the call in l issued by the page-wrap branch when it
\* is entered (the read of PAGE_SEL that follows msb++)
WrapEntries(l) == {k \in 1..Len(l.steps) : l.steps[k][1] = "wrap_rd"}

(* C21: a call of lsm6dso32_ln_pg_write or lsm6dso32_ln_pg_read enters the
   page-wrap branch at most once, whatever the start address and for every
   length up to the greatest an 8-bit len can hold; it does so exactly when
   the offset has run from its start value through 255 to 0. *)
C21_AtMostOneWrap ==
  \A p \in Callers :
    LET l == loc[p]
    IN l.fn \in {"ln_pg_write", "ln_pg_read"} =>
         /\ Cardinality(WrapEntries(l)) <= 1
         /\ Count(l.trace, "R", "PAGE_SEL") <= 2
         /\ l.msb \in {PageIndex(l.address), PageIndex(l.address) + 1}
         /\ (Returned(p) /\ l.ret = 0) =>
              /\ Cardinality(ValuePositions(l.trace)) = l.len
              /\ WrapEntries(l) # {} <=> PageOffset(l.address) + l.len >= 256

\* a burst of 255 bytes that started at offset 128 has returned 0 after
\* entering the page-wrap branch once, in the middle of the burst
C21_Witness ==
  \E p \in Callers :
    /\ Returned(p) /\ loc[p].ret = 0
    /\ loc[p].len = UINT8_MAX /\ PageOffset(loc[p].address) = 128
    /\ Cardinality(WrapEntries(loc[p])) = 1
    /\ Cardinality(ValuePositions(loc[p].trace)) = UINT8_MAX

(* C22: the page index is not checked when it is incremented.  A burst that
   starts in page 15 and whose offset runs through 255 to 0 counts msb up to
   16 and writes it to the 4-bit page selector, where it reads 0; with a
   transport that never fails the bytes after the boundary go to (a write)
   or come from (a read) the cells of page 0, beginning at offset 0, and the
   call returns 0. *)
C22_Page15WrapsToPage0 ==
  \A p \in Callers : \A fn \in {"ln_pg_write", "ln_pg_read"} :
    LET l == loc[p]
        t == l.trace
        v == ValuePositions(t)
        off == PageOffset(l.address)
    IN (/\ ReturnedClean(p, fn) /\ PageIndex(l.address) = 15
        /\ off + l.len >= 256) =>
         /\ l.ret = 0
         /\ l.msb = 16
         /\ Cardinality(WrapEntries(l)) = 1
         /\ \A k \in WrapEntries(l) :
              /\ t[k].at.page_sel = 15
              /\ t[k + 1].rw = "W" /\ t[k + 1].reg = "PAGE_SEL"
              /\ t[k + 1].data.page_sel = 0
         /\ Cardinality(v) = l.len
         /\ \A j \in 1..l.len :
              LET e == t[Nth(v, j)]
              IN IF off + j - 1 < 256
                 THEN e.at.page_sel = 15 /\ e.at.page_addr = off + j - 1
                 ELSE /\ e.at.page_sel = 0
                      /\ e.at.page_addr = off + j - 1 - 256
                      /\ fn = "ln_pg_write" =>
                           MemAt(dev, <<0, off + j - 1 - 256>>) = l.buf[j]
                      /\ fn = "ln_pg_read" =>
                           l.buf[j] = MemAt(dev, <<0, off + j - 1 - 256>>)

\* a write of two bytes at the last offset of page 15 has returned 0 with
\* its second byte in cell 0 of page 0
C22_Witness ==
  \E p \in Callers :
    /\ ReturnedClean(p, "ln_pg_write") /\ loc[p].ret = 0
    /\ PageIndex(loc[p].address) = 15 /\ PageOffset(loc[p].address) = 255
    /\ loc[p].len = 2 /\ loc[p].msb = 16
    /\ MemAt(dev, <<0, 0>>) = loc[p].buf[2]

\* the memory cells of the linear addresses a .. a+n-1
CellsOf(a, n) == {LinCell(a + j - 1) : j \in 1..n}
\* the cells whose content differs between devices d and e
Changed(d, e) ==
  {c \in DOMAIN d.mem \cup DOMAIN e.mem : MemAt(d, c) # MemAt(e, c)}

(* C23: frame of a burst whose transactions all succeed.  No transaction of
   lsm6dso32_ln_pg_read changes a byte of the paged memory; a transaction of
   lsm6dso32_ln_pg_write(a, data, n) changes no byte outside the cells of
   a .. a+n-1, and when the call has returned each of these cells holds its
   byte of data; a read that has returned holds in buf the present content
   of its cells, so that a read after successful writes returns, for every
   address, what the last write covering it stored. *)
C23_BurstFrame ==
  [][LET l == loc[1]
         m == loc'[1]
     IN /\ (Running(l) /\ Clean(m)) =>
             /\ l.fn # "ln_pg_write" => Changed(dev, dev') = {}
             /\ l.fn = "ln_pg_write" =>
                  Changed(dev, dev') \subseteq CellsOf(l.address, l.len)
        /\ (Running(l) /\ m.pc = "done" /\ m.ctx = "dev" /\ Clean(m)) =>
             /\ m.fn = "ln_pg_write" =>
                  \A j \in 1..m.len :
                    MemAt(dev', LinCell(m.address + j - 1)) = m.buf[j]
             /\ m.fn = "ln_pg_read" =>
                  /\ \A j \in 1..m.len :
                       m.buf[j] = MemAt(dev', LinCell(m.address + j - 1))
                  /\ (prev[1].ok /\ prev[1].fn = "ln_pg_write") =>
                       \A j \in 1..m.len, k \in 1..prev[1].len :
                         LinCell(m.address + j - 1)
                             = LinCell(prev[1].address + k - 1)
                           => m.buf[j] = prev[1].buf[k]
        /\ ~Running(l) => dev' = dev]_vars

\* a second successful write to the same two addresses has returned, and the
\* memory holds its bytes in place of those of the first
C23_Witness ==
  \E p \in Callers :
    /\ ReturnedClean(p, "ln_pg_write") /\ loc[p].len = 2
    /\ prev[p].ok /\ prev[p].fn = "ln_pg_write"
    /\ prev[p].address = loc[p].address /\ prev[p].len = 2
    /\ prev[p].buf # loc[p].buf
    /\ \A j \in 1..2 :
         MemAt(dev, LinCell(loc[p].address + j - 1)) = loc[p].buf[j]
    /\ Cardinality(DOMAIN dev.mem) = 2

(* ============ accessors that switch the bank around their work ========= *)
\* the statement ret = lsm6dso32_mem_bank_set(ctx, val) of an accessor is
\* reached: tag tells which of the accessor's bank switches it is
CallBank(l, val, tag) ==
  [l EXCEPT !.pc = "bank_rd", !.bank_val = val, !.ra = tag]

\* ret = <register call r>; the statement at `next` stands under
\* if (ret == 0), and so does every statement after it up to return ret
IfRetZero(l, r, next) ==
  IF r = 0 THEN [next EXCEPT !.ret = r] ELSE [l EXCEPT !.ret = r, !.pc = "done"]

(* -------- lsm6dso32_int_notification_set (lines 3573-3614) ------------- *)
\* lines 3580-3581, 3585-3586
int_notification_set_tap_rd(l, d, st, g) ==
  LET r == lsm6dso32_read_reg(l.ctx, d, "TAP_CFG0", l.tap_cfg0, 1, st, g)
      l1 == [Log(l, r, "R", "TAP_CFG0") EXCEPT !.tap_cfg0 = r.data]
  IN Out(IfRetZero(l1, r.ret,
                   [l1 EXCEPT !.tap_cfg0.lir = l.val % 2,
                              !.tap_cfg0.int_clr_on_read = l.val % 2,
                              !.pc = "tap_wr"]), r.dev)

\* lines 3587-3588, 3593
int_notification_set_tap_wr(l, d, st, g) ==
  LET r == lsm6dso32_write_reg(l.ctx, d, "TAP_CFG0", l.tap_cfg0, 1, st)
      l1 == Log(l, r, "W", "TAP_CFG0")
  IN Out(IfRetZero(l1, r.ret,
                   CallBank(l1, LSM6DSO32_EMBEDDED_FUNC_BANK, "b1")), r.dev)

\* lines 3593, 3606: the two calls of lsm6dso32_mem_bank_set, one
\* transaction at a time; its pc is "done" when it has returned
int_notification_set_bank(l, d, st, g) ==
  LET o == lsm6dso32_mem_bank_set(l, d, st, g)
      m == o.loc
  IN IF m.pc # "done" THEN o
     ELSE Out(IF l.ra = "b1"
              THEN IfRetZero(m, m.ret, [m EXCEPT !.pc = "lir_rd"])
              ELSE m, o.dev)

\* lines 3598, 3603
int_notification_set_lir_rd(l, d, st, g) ==
  LET r == lsm6dso32_read_reg(l.ctx, d, "PAGE_RW", l.page_rw, 1, st, g)
      l1 == [Log(l, r, "R", "PAGE_RW") EXCEPT !.page_rw = r.data]
  IN Out(IfRetZero(l1, r.ret,
                   [l1 EXCEPT !.page_rw.emb_func_lir = (l.val \div 2) % 2,
                              !.pc = "lir_wr"]), r.dev)

\* lines 3604-3605, 3610
int_notification_set_lir_wr(l, d, st, g) ==
  LET r == lsm6dso32_write_reg(l.ctx, d, "PAGE_RW", l.page_rw, 1, st)
      l1 == Log(l, r, "W", "PAGE_RW")
  IN Out(IfRetZero(l1, r.ret, CallBank(l1, LSM6DSO32_USER_BANK, "b2")),
         r.dev)

lsm6dso32_int_notification_set(l, d, st, g) ==
  CASE l.pc = "tap_rd" -> int_notification_set_tap_rd(l, d, st, g)
    [] l.pc = "tap_wr" -> int_notification_set_tap_wr(l, d, st, g)
    [] l.pc \in {"bank_rd", "bank_wr"} ->
         int_notification_set_bank(l, d, st, g)
    [] l.pc = "lir_rd" -> int_notification_set_lir_rd(l, d, st, g)
    [] l.pc = "lir_wr" -> int_notification_set_lir_wr(l, d, st, g)

(* -------- lsm6dso32_int_notification_get (lines 3624-3687) ------------- *)
LSM6DSO32_ALL_INT_PULSED == 0
LSM6DSO32_BASE_LATCHED_EMB_PULSED == 1
LSM6DSO32_BASE_PULSED_EMB_LATCHED == 2
LSM6DSO32_ALL_INT_LATCHED == 3

\* lines 3631-3632, 3636
int_notification_get_tap_rd(l, d, st, g) ==
  LET r == lsm6dso32_read_reg(l.ctx, d, "TAP_CFG0", l.tap_cfg0, 1, st, g)
      l1 == [Log(l, r, "R", "TAP_CFG0") EXCEPT !.tap_cfg0 = r.data]
  IN Out(IfRetZero(l1, r.ret,
                   CallBank(l1, LSM6DSO32_EMBEDDED_FUNC_BANK, "b1")), r.dev)

\* the switch of lines 3651-3672
int_notification_get_switch(page_rw, tap_cfg0) ==
  LET x == 2 * page_rw.emb_func_lir + tap_cfg0.lir
  IN CASE x = LSM6DSO32_ALL_INT_PULSED -> LSM6DSO32_ALL_INT_PULSED
       [] x = LSM6DSO32_BASE_LATCHED_EMB_PULSED ->
            LSM6DSO32_BASE_LATCHED_EMB_PULSED
       [] x = LSM6DSO32_BASE_PULSED_EMB_LATCHED ->
            LSM6DSO32_BASE_PULSED_EMB_LATCHED
       [] x = LSM6DSO32_ALL_INT_LATCHED -> LSM6DSO32_ALL_INT_LATCHED
       [] OTHER -> LSM6DSO32_ALL_INT_PULSED

\* lines 3636, 3646, 3674, 3684: the four calls of lsm6dso32_mem_bank_set;
\* after the second, *val is stored and the third is entered
int_notification_get_bank(l, d, st, g) ==
  LET o == lsm6dso32_mem_bank_set(l, d, st, g)
      m == o.loc
  IN IF m.pc # "done" THEN o
     ELSE Out(CASE l.ra = "b1" ->
                     IfRetZero(m, m.ret, [m EXCEPT !.pc = "lir_rd"])
                [] l.ra = "b2" ->
                     IfRetZero(m, m.ret,
                       CallBank([m EXCEPT !.val = int_notification_get_switch(
                                                    m.page_rw, m.tap_cfg0)],
                                LSM6DSO32_EMBEDDED_FUNC_BANK, "b3"))
                [] l.ra = "b3" ->
                     IfRetZero(m, m.ret, [m EXCEPT !.pc = "lir_rd2"])
                [] OTHER -> m, o.dev)

\* lines 3641, 3646
int_notification_get_lir_rd(l, d, st, g) ==
  LET r == lsm6dso32_read_reg(l.ctx, d, "PAGE_RW", l.page_rw, 1, st, g)
      l1 == [Log(l, r, "R", "PAGE_RW") EXCEPT !.page_rw = r.data]
  IN Out(IfRetZero(l1, r.ret, CallBank(l1, LSM6DSO32_USER_BANK, "b2")),
         r.dev)

\* lines 3679, 3684
int_notification_get_lir_rd2(l, d, st, g) ==
  LET r == lsm6dso32_read_reg(l.ctx, d, "PAGE_RW", l.page_rw, 1, st, g)
      l1 == [Log(l, r, "R", "PAGE_RW") EXCEPT !.page_rw = r.data]
  IN Out(IfRetZero(l1, r.ret, CallBank(l1, LSM6DSO32_USER_BANK, "b4")),
         r.dev)

lsm6dso32_int_notification_get(l, d, st, g) ==
  CASE l.pc = "tap_rd" -> int_notification_get_tap_rd(l, d, st, g)
    [] l.pc \in {"bank_rd", "bank_wr"} ->
         int_notification_get_bank(l, d, st, g)
    [] l.pc = "lir_rd" -> int_notification_get_lir_rd(l, d, st, g)
    [] l.pc = "lir_rd2" -> int_notification_get_lir_rd2(l, d, st, g)

(* ------------- notification mode and bursts: the callers --------------- *)
\* values of lsm6dso32_lir_t
LirValues == 0..3
\* the locals of the notification accessors (lines 3576-3577, 3627-3628)
LirLoc ==
  IdleLoc @@ [tap_cfg0 |-> [lir |-> 0, int_clr_on_read |-> 0, other |-> 0],
              val |-> 0]

\* the device after power-on, with TAP_CFG0, and with the bits of
\* FUNC_CFG_ACCESS outside reg_access as the application has left them
LirDevInit(o) ==
  [DevInit EXCEPT
     !.fca.other = o,
     !.regs = [b \in Banks |-> [n \in PageRegs \cup {"TAP_CFG0"} |->
                 IF n \in PageRegs THEN DevInit.regs[b][n]
                 ELSE [lir |-> 0, int_clr_on_read |-> 0, other |-> 0]]]]

InitLir ==
  /\ loc = [p \in Callers |-> IdleLoc]
  /\ prev = [p \in Callers |-> Summary(IdleLoc)]
  /\ dev \in {LirDevInit(o) : o \in {0, 1}}
  /\ calls = 0
  /\ faults = 0
  /\ twin = [loc |-> IdleLoc, dev |-> DevInit]
  /\ sched = [last |-> 0, switches |-> 0]

\* lsm6dso32_int_notification_set(ctx, val), made once, before anything else,
\* by the part of the application that configures the device (caller 2)
CallNotificationSet(p) ==
  /\ calls = 0 /\ loc[p].pc = "idle"
  /\ \E v \in LirValues :
       loc' = [loc EXCEPT ![p] = [LirLoc EXCEPT !.pc = "tap_rd",
                                    !.fn = "int_notification_set", !.val = v]]
  /\ UNCHANGED <<prev, dev, calls, faults, twin, sched>>

\* where the bursts go: the end of page 1 (0x01FF) and of the last page
LirAddresses == {511, 8191}

\* a burst of MaxLen bytes made by caller 1 while no other call is under way
LirCallWrite(p) ==
  /\ \A q \in Callers : ~Running(loc[q])
  /\ \E a \in LirAddresses, data \in WriteData(MaxLen) :
       Start(p, Enter("ln_pg_write", "burst", "dev", a, data, MaxLen, dev))

LirCallRead(p) ==
  /\ \A q \in Callers : ~Running(loc[q])
  /\ \E a \in LirAddresses :
       Start(p, Enter("ln_pg_read", "burst", "dev", a, ReadBuffer(MaxLen),
                      MaxLen, dev))

\* lsm6dso32_int_notification_get(ctx, &val); 255 stands for the caller's
\* variable before the call
CallNotificationGet(p) ==
  /\ \A q \in Callers : ~Running(loc[q])
  /\ Start(p, [LirLoc EXCEPT !.pc = "tap_rd", !.fn = "int_notification_get",
                             !.val = 255])

LirStep(l, d, st, g) ==
  CASE l.fn = "int_notification_set" ->
         lsm6dso32_int_notification_set(l, d, st, g)
    [] l.fn = "int_notification_get" ->
         lsm6dso32_int_notification_get(l, d, st, g)
    [] OTHER -> DriverStep(l, d, st, g)

\* the next register transaction of caller p's call
LirTransact(p) ==
  /\ Running(loc[p])
  /\ \E st \in StatusChoices(loc[p]), g \in UnknownChoices(loc[p]) :
       LET r == LirStep(loc[p], dev, st, g)
       IN /\ loc' = [loc EXCEPT ![p] = r.loc]
          /\ dev' = r.dev
          /\ faults' = IF st # 0 THEN faults + 1 ELSE faults
  /\ UNCHANGED <<prev, calls, twin, sched>>

NextLir ==
  \/ CallNotificationSet(2)
  \/ LirCallWrite(1)
  \/ LirCallRead(1)
  \/ CallNotificationGet(1)
  \/ LirTransact(1)
  \/ LirTransact(2)

SpecLir == InitLir /\ [][NextLir]_vars

\* where the bits the paged routines do not own stand in device d
Unowned(d) ==
  [emb_func_lir |-> EmbRegs(d)["PAGE_RW"].emb_func_lir,
   fca_other |-> d.fca.other]

(* C24: a paged read or write whose transactions all succeed leaves the
   emb_func_lir bit of PAGE_RW and the bits of FUNC_CFG_ACCESS outside
   reg_access as they were, at every step; so that, when
   lsm6dso32_int_notification_set(v) has succeeded, successful bursts have
   followed and lsm6dso32_int_notification_get succeeds, the value it stores
   has the embedded-latch bit (bit 1) of v. *)
C24_UnownedBitsPreserved ==
  [][LET l == loc[1]
         m == loc'[1]
     IN /\ (/\ Running(l) /\ l.fn \in {"ln_pg_write", "ln_pg_read"}
            /\ Clean(m)) => Unowned(dev') = Unowned(dev)
        /\ (/\ Running(loc[2]) /\ loc'[2].pc = "done" /\ Clean(loc'[2])) =>
             /\ loc'[2].ret = 0
             /\ Unowned(dev').emb_func_lir = (loc'[2].val \div 2) % 2
             /\ Unowned(dev').fca_other = Unowned(dev).fca_other
        /\ (/\ Running(l) /\ l.fn = "int_notification_get"
            /\ m.pc = "done" /\ Clean(m)) =>
             /\ m.ret = 0
             /\ (m.val \div 2) % 2 = Unowned(dev').emb_func_lir
             /\ (/\ loc[2].pc = "done" /\ Clean(loc[2])
                 /\ calls = 1 \/ prev[1].ok) =>
                  (m.val \div 2) % 2 = (loc[2].val \div 2) % 2]_vars

\* the mode 2 (embedded functions latched) was set with a reserved bit of
\* FUNC_CFG_ACCESS at 1, a written burst succeeded, and the mode read back
\* has the latch bit
C24_Witness ==
  /\ loc[2].pc = "done" /\ loc[2].fn = "int_notification_set"
  /\ Clean(loc[2]) /\ loc[2].val = 2
  /\ prev[1].ok /\ prev[1].fn = "ln_pg_write" /\ prev[1].len = MaxLen
  /\ loc[1].pc = "done" /\ loc[1].fn = "int_notification_get"
  /\ Clean(loc[1]) /\ loc[1].ret = 0 /\ loc[1].val = 2
  /\ dev.fca.other = 1

\* the status the entry lsm6dso32_mem_bank_set(EMBEDDED_FUNC_BANK) of the
\* call in l returned, once it has returned (0 while it is under way): that
\* of its read when the read failed or ctx is NULL, else that of its write
EntryStatus(l) ==
  IF l.ctx = "NULL" THEN (IF l.nreg = 0 THEN 0 ELSE NULL_CTX_ERROR)
  ELSE IF l.trace = <<>> THEN 0
  ELSE IF l.trace[1].st # 0 THEN l.trace[1].st
  ELSE IF Len(l.trace) >= 2 THEN l.trace[2].st
  ELSE 0

(* C25: when the lsm6dso32_mem_bank_set(EMBEDDED_FUNC_BANK) that opens a
   paged read or write returns nonzero, the call has returned with that
   status and has issued nothing but the transactions of that bank switch
   (its read of FUNC_CFG_ACCESS and, if the read succeeded, its write): no
   access to a page register, no byte transfer, no bank restore. *)
C25_EntryFailureReturnsAtOnce ==
  \A p \in Callers :
    LET l == loc[p]
        t == l.trace
    IN (l.fn \in {"ln_pg_write", "ln_pg_read"} /\ EntryStatus(l) # 0) =>
         /\ l.pc = "done"
         /\ l.ret = EntryStatus(l)
         /\ l.ra = "enter"
         /\ Len(t) <= 2
         /\ \A k \in 1..Len(t) : t[k].reg = "FUNC_CFG_ACCESS"
         /\ Len(t) = 2 => t[1].rw = "R" /\ t[1].st = 0 /\ t[2].rw = "W"
         /\ Len(t) = 1 => t[1].rw = "R"
         /\ l.ctx = "NULL" => t = <<>>
         /\ l.nreg = (IF Len(t) = 2 THEN 2 ELSE 1)

\* a read of MaxLen bytes has returned the nonzero status of the write of
\* FUNC_CFG_ACCESS that was to select the embedded bank
C25_Witness ==
  \E p \in Callers :
    LET l == loc[p]
    IN /\ l.pc = "done" /\ l.fn = "ln_pg_read" /\ l.len = MaxLen
       /\ l.ctx = "dev" /\ Len(l.trace) = 2
       /\ l.trace[2].st # 0 /\ l.ret = l.trace[2].st

\* the statement that issued the k-th transaction of the call in l
PcOf(l, k) == l.steps[k][1]
\* the read-modify-write pairs of the paged routines, by the statement of
\* their read: enable set, first page select, enable clear
PairReads == {"rw_rd", "sel_rd", "clr_rd"}
\* where the call in l goes on when the pair whose read is `rd` has summed
\* to 0
AfterPair(l, rd) ==
  CASE rd = "rw_rd" -> "sel_rd"
    [] rd = "sel_rd" -> IF l.fn = "ln_pg_write" \/ l.len > 0 THEN "addr_wr"
                        ELSE "rst_wr"
    [] rd = "clr_rd" -> "bank_rd"

(* C26: in the read-modify-write pairs of the paged routines (enable set,
   first page select, enable clear) the write follows the read whatever the
   read returned, to the same register; the routine leaves for the exit
   label after the pair exactly when the two statuses do not sum to 0, and
   goes on with its next statement when they do, also when both are
   nonzero. *)
C26_WriteFollowsFailedRead ==
  \A p \in Callers :
    LET l == loc[p]
        t == l.trace
    IN (l.fn \in {"ln_pg_write", "ln_pg_read"} /\ l.ctx = "dev") =>
         \A k \in 1..Len(t) :
           PcOf(l, k) \in PairReads =>
             /\ t[k].rw = "R"
             /\ t[k].reg = (IF PcOf(l, k) = "sel_rd" THEN "PAGE_SEL"
                            ELSE "PAGE_RW")
             /\ Len(t) = k => l.pc = (CASE PcOf(l, k) = "rw_rd" -> "rw_wr"
                                        [] PcOf(l, k) = "sel_rd" -> "sel_wr"
                                        [] PcOf(l, k) = "clr_rd" -> "clr_wr")
             /\ Len(t) > k =>
                  /\ t[k + 1].rw = "W" /\ t[k + 1].reg = t[k].reg
             /\ Len(t) = k + 1 =>
                  IF t[k].st + t[k + 1].st # 0
                  THEN /\ l.pc = "bank_rd" /\ l.ra = "exit"
                       /\ l.ret = t[k].st + t[k + 1].st
                  ELSE l.pc = AfterPair(l, PcOf(l, k)) /\ l.ret = 0

\* the read of PAGE_RW that opens a write failed, the write of PAGE_RW was
\* issued all the same and succeeded, and the call has returned nonzero
C26_Witness ==
  \E p \in Callers :
    LET l == loc[p]
        t == l.trace
    IN /\ Returned(p) /\ l.fn = "ln_pg_write" /\ Len(t) >= 4
       /\ PcOf(l, 3) = "rw_rd" /\ t[3].st # 0
       /\ t[4].rw = "W" /\ t[4].reg = "PAGE_RW" /\ t[4].st = 0
       /\ l.ret # 0

(* =========== accessors of the embedded and sensor hub banks ============ *)
PROPERTY_DISABLE == 0
PROPERTY_ENABLE == 1

\* the mem_bank_set calls of an accessor that opens with one (tag b1) and
\* closes with one (b2): after the first the accessor goes on at `first`
AccBank(l, d, st, g, first) ==
  LET o == lsm6dso32_mem_bank_set(l, d, st, g)
      m == o.loc
  IN IF m.pc # "done" THEN o
     ELSE Out(IF l.ra = "b1"
              THEN IfRetZero(m, m.ret, [m EXCEPT !.pc = first])
              ELSE m, o.dev)

(* ---------------- lsm6dso32_steps_reset (lines 1369-1394) -------------- *)
\* lines 1378, 1383
steps_reset_src_rd(l, d, st, g) ==
  LET r == lsm6dso32_read_reg(l.ctx, d, "EMB_FUNC_SRC", l.areg, 1, st, g)
      l1 == [Log(l, r, "R", "EMB_FUNC_SRC") EXCEPT !.areg = r.data]
  IN Out(IfRetZero(l1, r.ret,
                   [l1 EXCEPT !.areg.pedo_rst_step = PROPERTY_ENABLE,
                              !.pc = "src_wr"]), r.dev)

\* faulty variant: the user bank is restored whatever the write returned
steps_reset_src_wr_Restore(l, d, st, g) ==
  LET r == lsm6dso32_write_reg(l.ctx, d, "EMB_FUNC_SRC", l.areg, 1, st)
      l1 == Log(l, r, "W", "EMB_FUNC_SRC")
  IN Out(CallBank([l1 EXCEPT !.ret = r.ret], LSM6DSO32_USER_BANK, "b2"),
         r.dev)

\* lines 1384-1385, 1390
steps_reset_src_wr(l, d, st, g) ==
  LET r == lsm6dso32_write_reg(l.ctx, d, "EMB_FUNC_SRC", l.areg, 1, st)
      l1 == Log(l, r, "W", "EMB_FUNC_SRC")
  IN Out(IfRetZero(l1, r.ret, CallBank(l1, LSM6DSO32_USER_BANK, "b2")),
         r.dev)

lsm6dso32_steps_reset(l, d, st, g) ==
  CASE l.pc \in {"bank_rd", "bank_wr"} -> AccBank(l, d, st, g, "src_rd")
    [] l.pc = "src_rd" -> steps_reset_src_rd(l, d, st, g)
    [] l.pc = "src_wr" -> steps_reset_src_wr(l, d, st, g)

(* --------------- lsm6dso32_fsm_enable_set (lines 8200-8264) ------------ *)
\* lines 8210-8211
fsm_enable_set_ena_wr(l, d, st, g) ==
  LET r == lsm6dso32_write_reg(l.ctx, d, "FSM_ENABLE_A",
                               [byte |-> l.val.fsm_enable_a], 1, st)
      l1 == Log(l, r, "W", "FSM_ENABLE_A")
  IN Out(IfRetZero(l1, r.ret, [l1 EXCEPT !.pc = "enb_wr"]), r.dev)

\* lines 8216-8217
fsm_enable_set_enb_wr(l, d, st, g) ==
  LET r == lsm6dso32_write_reg(l.ctx, d, "FSM_ENABLE_B",
                               [byte |-> l.val.fsm_enable_b], 1, st)
      l1 == Log(l, r, "W", "FSM_ENABLE_B")
  IN Out(IfRetZero(l1, r.ret, [l1 EXCEPT !.pc = "en_rd"]), r.dev)

\* lines 8222-8223, 8226-8252: fsm_en is set when any of the sixteen enable
\* bits of val is
fsm_enable_set_en_rd(l, d, st, g) ==
  LET r == lsm6dso32_read_reg(l.ctx, d, "EMB_FUNC_EN_B", l.areg, 1, st, g)
      l1 == [Log(l, r, "R", "EMB_FUNC_EN_B") EXCEPT !.areg = r.data]
      en == IF l.val.fsm_enable_a # 0 \/ l.val.fsm_enable_b # 0
            THEN PROPERTY_ENABLE ELSE PROPERTY_DISABLE
  IN Out(IfRetZero(l1, r.ret,
                   [l1 EXCEPT !.areg.fsm_en = en, !.pc = "en_wr"]), r.dev)

\* lines 8254-8255, 8260
fsm_enable_set_en_wr(l, d, st, g) ==
  LET r == lsm6dso32_write_reg(l.ctx, d, "EMB_FUNC_EN_B", l.areg, 1, st)
      l1 == Log(l, r, "W", "EMB_FUNC_EN_B")
  IN Out(IfRetZero(l1, r.ret, CallBank(l1, LSM6DSO32_USER_BANK, "b2")),
         r.dev)

lsm6dso32_fsm_enable_set(l, d, st, g) ==
  CASE l.pc \in {"bank_rd", "bank_wr"} -> AccBank(l, d, st, g, "ena_wr")
    [] l.pc = "ena_wr" -> fsm_enable_set_ena_wr(l, d, st, g)
    [] l.pc = "enb_wr" -> fsm_enable_set_enb_wr(l, d, st, g)
    [] l.pc = "en_rd" -> fsm_enable_set_en_rd(l, d, st, g)
    [] l.pc = "en_wr" -> fsm_enable_set_en_wr(l, d, st, g)

(* ---------------- lsm6dso32_sh_cfg_write (lines 9476-9509) ------------- *)
\* lines 9486-9488
sh_cfg_write_add_wr(l, d, st, g) ==
  LET r == lsm6dso32_write_reg(l.ctx, d, "SLV0_ADD",
                               [slave0 |-> l.val.slv0_add, rw_0 |-> 0], 1, st)
      l1 == [Log(l, r, "W", "SLV0_ADD") EXCEPT !.areg = r.data]
  IN Out(IfRetZero(l1, r.ret, [l1 EXCEPT !.pc = "sub_wr"]), r.dev)

\* lines 9493-9494
sh_cfg_write_sub_wr(l, d, st, g) ==
  LET r == lsm6dso32_write_reg(l.ctx, d, "SLV0_SUBADD",
                               [byte |-> l.val.slv0_subadd], 1, st)
      l1 == Log(l, r, "W", "SLV0_SUBADD")
  IN Out(IfRetZero(l1, r.ret, [l1 EXCEPT !.pc = "dat_wr"]), r.dev)

\* lines 9499-9500, 9505
sh_cfg_write_dat_wr(l, d, st, g) ==
  LET r == lsm6dso32_write_reg(l.ctx, d, "DATAWRITE_SLV0",
                               [byte |-> l.val.slv0_data], 1, st)
      l1 == Log(l, r, "W", "DATAWRITE_SLV0")
  IN Out(IfRetZero(l1, r.ret, CallBank(l1, LSM6DSO32_USER_BANK, "b2")),
         r.dev)

lsm6dso32_sh_cfg_write(l, d, st, g) ==
  CASE l.pc \in {"bank_rd", "bank_wr"} -> AccBank(l, d, st, g, "add_wr")
    [] l.pc = "add_wr" -> sh_cfg_write_add_wr(l, d, st, g)
    [] l.pc = "sub_wr" -> sh_cfg_write_sub_wr(l, d, st, g)
    [] l.pc = "dat_wr" -> sh_cfg_write_dat_wr(l, d, st, g)

(* ------------------------- the callers --------------------------------- *)
AccRegs ==
  {"EMB_FUNC_SRC", "FSM_ENABLE_A", "FSM_ENABLE_B", "EMB_FUNC_EN_B",
   "SLV0_ADD", "SLV0_SUBADD", "DATAWRITE_SLV0"}
AccZeroReg(n) ==
  CASE n = "EMB_FUNC_SRC" -> [pedo_rst_step |-> 0, other |-> 0]
    [] n = "EMB_FUNC_EN_B" -> [fsm_en |-> 0, other |-> 0]
    [] n = "SLV0_ADD" -> [slave0 |-> 0, rw_0 |-> 0]
    [] OTHER -> [byte |-> 0]

\* the locals and parameters of the accessors: reg (here areg, reg being
\* that of lsm6dso32_mem_bank_set) and val
AccLoc == IdleLoc @@ [areg |-> [byte |-> 0], val |-> [byte |-> 0]]

AccDevInit ==
  [DevInit EXCEPT
     !.regs = [b \in Banks |-> [n \in PageRegs \cup AccRegs |->
                 IF n \in PageRegs THEN DevInit.regs[b][n]
                 ELSE AccZeroReg(n)]]]

InitAcc ==
  /\ loc = [p \in Callers |-> IdleLoc]
  /\ prev = [p \in Callers |-> Summary(IdleLoc)]
  /\ dev = AccDevInit
  /\ calls = 0
  /\ faults = 0
  /\ twin = [loc |-> IdleLoc, dev |-> DevInit]
  /\ sched = [last |-> 0, switches |-> 0]

\* the accessor is entered: its first statement is
\* ret = lsm6dso32_mem_bank_set(ctx, bank)
AccEnter(fn, ctx, bank, areg, val) ==
  CallBank([AccLoc EXCEPT !.fn = fn, !.ctx = ctx, !.areg = areg,
                          !.val = val], bank, "b1")

\* lsm6dso32_steps_reset(ctx)
CallStepsReset(p) ==
  \E ctx \in Contexts :
    Start(p, AccEnter("steps_reset", ctx, LSM6DSO32_EMBEDDED_FUNC_BANK,
                      AccZeroReg("EMB_FUNC_SRC"), [byte |-> 0]))

\* lsm6dso32_fsm_enable_set(ctx, val)
CallFsmEnableSet(p) ==
  \E a \in {0, 1}, b \in {0, 128} :
    Start(p, AccEnter("fsm_enable_set", "dev", LSM6DSO32_EMBEDDED_FUNC_BANK,
                      AccZeroReg("EMB_FUNC_EN_B"),
                      [fsm_enable_a |-> a, fsm_enable_b |-> b]))

\* lsm6dso32_sh_cfg_write(ctx, val)
CallShCfgWrite(p) ==
  \E add \in {28}, data \in {0, 255} :
    Start(p, AccEnter("sh_cfg_write", "dev", LSM6DSO32_SENSOR_HUB_BANK,
                      AccZeroReg("SLV0_ADD"),
                      [slv0_add |-> add, slv0_subadd |-> 96,
                       slv0_data |-> data]))

AccStep(l, d, st, g) ==
  CASE l.fn = "steps_reset"    -> lsm6dso32_steps_reset(l, d, st, g)
    [] l.fn = "fsm_enable_set" -> lsm6dso32_fsm_enable_set(l, d, st, g)
    [] l.fn = "sh_cfg_write"   -> lsm6dso32_sh_cfg_write(l, d, st, g)
    [] l.fn = "mem_bank_set"   -> lsm6dso32_mem_bank_set(l, d, st, g)

\* the next register transaction of caller p's call
AccTransact(p) ==
  /\ Running(loc[p])
  /\ \E st \in StatusChoices(loc[p]) :
       LET r == AccStep(loc[p], dev, st, 0)
       IN /\ loc' = [loc EXCEPT ![p] = r.loc]
          /\ dev' = r.dev
          /\ faults' = IF st # 0 THEN faults + 1 ELSE faults
  /\ UNCHANGED <<prev, calls, twin, sched>>

NextAcc ==
  \/ CallStepsReset(1)
  \/ CallFsmEnableSet(1)
  \/ CallShCfgWrite(1)
  \/ CallBankSet(1)
  \/ AccTransact(1)

SpecAcc == InitAcc /\ [][NextAcc]_vars

Accessors == {"steps_reset", "fsm_enable_set", "sh_cfg_write"}
\* the bank the accessor fn works in
BankOf(fn) ==
  IF fn = "sh_cfg_write" THEN LSM6DSO32_SENSOR_HUB_BANK
  ELSE LSM6DSO32_EMBEDDED_FUNC_BANK
\* the opening bank switch of the call in l has succeeded
Switched(l) ==
  /\ Len(l.trace) >= 2 /\ l.trace[1].st = 0
  /\ l.trace[2].rw = "W" /\ l.trace[2].st = 0

(* C27: lsm6dso32_steps_reset, lsm6dso32_fsm_enable_set and
   lsm6dso32_sh_cfg_write restore the user bank only when every step before
   succeeded.  When a transaction fails after the opening bank switch has
   succeeded, the call returns that transaction's status, issues nothing
   after it, and leaves the device in the bank it had switched to; a call
   whose transactions all succeed leaves it in the user bank; and the
   device changes bank only by a successful write of FUNC_CFG_ACCESS, so
   that the bank stays switched over later calls until one of them sets it
   with success. *)
C27_BankLeftSwitchedOnFailure ==
  [][LET l == loc[1]
         m == loc'[1]
         t == m.trace
     IN /\ ~Running(l) => dev' = dev
        /\ dev'.fca.reg_access # dev.fca.reg_access =>
             /\ Running(l) /\ Len(t) = Len(l.trace) + 1
             /\ t[Len(t)].rw = "W" /\ t[Len(t)].reg = "FUNC_CFG_ACCESS"
             /\ t[Len(t)].st = 0
             /\ t[Len(t)].data.reg_access = dev'.fca.reg_access
        /\ (Running(l) /\ m.fn \in Accessors /\ m.ctx = "dev") =>
             /\ \A k \in 1..(Len(t) - 1) : t[k].st = 0
             /\ (Switched(m) /\ ~Clean(m)) =>
                  /\ m.pc = "done"
                  /\ m.ret = t[Len(t)].st
                  /\ dev'.fca.reg_access = BankOf(m.fn)
                  /\ Len(t) > 2
             /\ (m.pc = "done" /\ Clean(m)) =>
                  /\ m.ret = 0
                  /\ dev'.fca.reg_access = LSM6DSO32_USER_BANK
             /\ (m.pc = "done" /\ ~Clean(m)) => m.ret # 0]_vars

\* lsm6dso32_sh_cfg_write failed at its second register write and returned;
\* a lsm6dso32_steps_reset after it failed at its first read of
\* FUNC_CFG_ACCESS, and the device is still in the sensor hub bank
C27_Witness ==
  /\ loc[1].pc = "done" /\ loc[1].fn = "steps_reset" /\ loc[1].ctx = "dev"
  /\ Len(loc[1].trace) = 1 /\ loc[1].trace[1].st # 0
  /\ faults = 2 /\ calls = 2
  /\ dev.fca.reg_access = LSM6DSO32_SENSOR_HUB_BANK
  /\ dev.regs[LSM6DSO32_SENSOR_HUB_BANK]["SLV0_ADD"].slave0 = 28
  /\ dev.regs[LSM6DSO32_SENSOR_HUB_BANK]["SLV0_SUBADD"].byte = 0

(* ======== 16-bit values kept in two cells of the paged memory ========== *)
(* -------- lsm6dso32_mag_sensitivity_set / _get (lines 7432-7477) ------- *)
LSM6DSO32_MAG_SENSITIVITY_L == 186
LSM6DSO32_MAG_SENSITIVITY_H == 187

MagValues == {0, 255, 256, 4660, 65535}

\* the frame of the accessor while one of its paged byte calls runs: buff is
\* buff[0], buff[1] (here buff[1], buff[2]), val is the parameter, out is
\* *val of the getter, t1 the transactions of the first byte call
MagIdle ==
  [fn |-> "-", pc |-> "idle", val |-> 0, buff |-> <<0, 0>>, out |-> 61166,
   ret |-> 0, t1 |-> <<>>, ok1 |-> FALSE]
MagLoc == IdleLoc @@ [mag |-> MagIdle]

\* lines 7437-7438
mag_sensitivity_set_buff(val) ==
  LET b1 == (val \div 256) % 256
  IN <<(val - b1 * 256) % 256, b1>>

\* lines 7437-7440: the call up to its first register transaction
mag_sensitivity_set_enter(ctx, val, d) ==
  LET b == mag_sensitivity_set_buff(val)
  IN lsm6dso32_ln_pg_write_byte(ctx, LSM6DSO32_MAG_SENSITIVITY_L,
                                <<b[1]>>, d)
       @@ [mag |-> [MagIdle EXCEPT !.fn = "mag_sensitivity_set",
                                   !.pc = "set_L", !.val = val, !.buff = b]]

\* lines 7465-7466; buff is not initialized
mag_sensitivity_get_enter(ctx, buff, d) ==
  lsm6dso32_ln_pg_read_byte(ctx, LSM6DSO32_MAG_SENSITIVITY_L, <<buff[1]>>, d)
    @@ [mag |-> [MagIdle EXCEPT !.fn = "mag_sensitivity_get",
                                !.pc = "get_L", !.buff = buff]]

\* lines 7442-7448: the first byte call has returned in l
mag_sensitivity_set_L(l, d) ==
  LET m == [l.mag EXCEPT !.ret = l.ret, !.t1 = l.trace, !.ok1 = Clean(l)]
  IN IF l.ret = 0
     THEN lsm6dso32_ln_pg_write_byte(l.ctx, LSM6DSO32_MAG_SENSITIVITY_H,
                                     <<m.buff[2]>>, d)
            @@ [mag |-> [m EXCEPT !.pc = "set_H"]]
     ELSE [l EXCEPT !.mag = [m EXCEPT !.pc = "done"]]

\* line 7448: the second byte call has returned in l
mag_sensitivity_set_H(l, d) ==
  [l EXCEPT !.mag.ret = l.ret, !.mag.pc = "done"]

\* lines 7468-7471, 7476
mag_sensitivity_get_L(l, d) ==
  LET m == [l.mag EXCEPT !.ret = l.ret, !.t1 = l.trace, !.ok1 = Clean(l),
                         !.buff[1] = l.buf[1]]
  IN IF l.ret = 0
     THEN lsm6dso32_ln_pg_read_byte(l.ctx, LSM6DSO32_MAG_SENSITIVITY_H,
                                    <<m.buff[2]>>, d)
            @@ [mag |-> [m EXCEPT !.pc = "get_H"]]
     ELSE [l EXCEPT !.mag = [m EXCEPT !.pc = "done"]]

\* lines 7472-7473, 7476: *val is stored whatever the second call returned
mag_sensitivity_get_H(l, d) ==
  [l EXCEPT !.mag.ret = l.ret, !.mag.pc = "done",
            !.mag.buff[2] = l.buf[1],
            !.mag.out = (l.buf[1] * 256 + l.mag.buff[1]) % 65536]

\* one register transaction of the byte call running in l and, when that
\* call returns, the accessor's statements up to the next transaction
MagStep(l, d, st, g) ==
  LET o == DriverStep(l, d, st, g)
      m == o.loc
  IN IF m.pc # "done" THEN o
     ELSE Out(CASE m.mag.pc = "set_L" -> mag_sensitivity_set_L(m, o.dev)
                [] m.mag.pc = "set_H" -> mag_sensitivity_set_H(m, o.dev)
                [] m.mag.pc = "get_L" -> mag_sensitivity_get_L(m, o.dev)
                [] m.mag.pc = "get_H" -> mag_sensitivity_get_H(m, o.dev),
              o.dev)

InitMag ==
  /\ loc = [p \in Callers |-> MagLoc]
  /\ prev = [p \in Callers |-> MagIdle]
  /\ dev = DevInit
  /\ calls = 0
  /\ faults = 0
  /\ twin = [loc |-> IdleLoc, dev |-> DevInit]
  /\ sched = [last |-> 0, switches |-> 0]

MagStart(p, l) ==
  /\ ~Running(loc[p])
  /\ calls < MaxCalls
  /\ loc' = [loc EXCEPT ![p] = l]
  /\ prev' = [prev EXCEPT ![p] = loc[p].mag]
  /\ calls' = calls + 1
  /\ UNCHANGED <<dev, faults, twin, sched>>

\* lsm6dso32_mag_sensitivity_set(ctx, val)
CallMagSensitivitySet(p) ==
  \E val \in MagValues : MagStart(p, mag_sensitivity_set_enter("dev", val, dev))

\* lsm6dso32_mag_sensitivity_get(ctx, val)
CallMagSensitivityGet(p) ==
  \E u0 \in UnknownByte, u1 \in UnknownByte :
    MagStart(p, mag_sensitivity_get_enter("dev", <<u0, u1>>, dev))

MagTransact(p) ==
  /\ Running(loc[p])
  /\ \E st \in StatusChoices(loc[p]), g \in UnknownChoices(loc[p]) :
       LET r == MagStep(loc[p], dev, st, g)
       IN /\ loc' = [loc EXCEPT ![p] = r.loc]
          /\ dev' = r.dev
          /\ faults' = IF st # 0 THEN faults + 1 ELSE faults
  /\ UNCHANGED <<prev, calls, twin, sched>>

NextMag ==
  \/ CallMagSensitivitySet(1)
  \/ CallMagSensitivityGet(1)
  \/ MagTransact(1)

SpecMag == InitMag /\ [][NextMag]_vars

MagCell(a) == MemAt(dev, LinCell(a))
\* the bytes written to PAGE_VALUE, and the offsets written to PAGE_ADDRESS,
\* in the transactions t
ValuesIn(t) ==
  [k \in 1..Cardinality(ValuePositions(t)) |->
     t[Nth(ValuePositions(t), k)].data.byte]
OffsetsIn(t) ==
  [k \in 1..Cardinality(Positions(t, "W", "PAGE_ADDRESS")) |->
     t[Nth(Positions(t, "W", "PAGE_ADDRESS"), k)].data.page_addr]

\* with a transport that never fails: a set writes val mod 256 at the _L
\* address and then val div 256 at the _H address, and a get that follows
\* yields val
MagRoundTrip ==
  LET m == loc[1].mag
  IN (faults = 0 /\ m.pc = "done") =>
       /\ m.ret = 0
       /\ m.fn = "mag_sensitivity_set" =>
            /\ OffsetsIn(m.t1) = <<LSM6DSO32_MAG_SENSITIVITY_L>>
            /\ ValuesIn(m.t1) = <<m.val % 256>>
            /\ OffsetsIn(loc[1].trace) = <<LSM6DSO32_MAG_SENSITIVITY_H>>
            /\ ValuesIn(loc[1].trace) = <<m.val \div 256>>
            /\ MagCell(LSM6DSO32_MAG_SENSITIVITY_L) = m.val % 256
            /\ MagCell(LSM6DSO32_MAG_SENSITIVITY_H) = m.val \div 256
       /\ (m.fn = "mag_sensitivity_get"
             /\ prev[1].fn = "mag_sensitivity_set") => m.out = prev[1].val

\* a set whose first byte call had no failed transaction and whose second
\* had one returns nonzero and leaves val mod 256 at the _L address
MagPartialFailure ==
  LET m == loc[1].mag
  IN (m.pc = "done" /\ m.fn = "mag_sensitivity_set" /\ m.ok1
        /\ loc[1].fn = "ln_pg_write" /\ loc[1].address = LSM6DSO32_MAG_SENSITIVITY_H
        /\ ~Clean(loc[1])) =>
       /\ m.ret # 0
       /\ MagCell(LSM6DSO32_MAG_SENSITIVITY_L) = m.val % 256

(* C28: a 16-bit value stored by lsm6dso32_mag_sensitivity_set is read back
   by lsm6dso32_mag_sensitivity_get when the transport never fails (low byte
   val mod 256 written to the _L address first, high byte val div 256 to the
   _H address second), and when the write of the high byte fails after the
   write of the low byte succeeded, the low byte stays updated and the call
   returns nonzero. *)
C28_SixteenBitRoundTrip == MagRoundTrip /\ MagPartialFailure

(* ------------- the order of lsm6dso32_xl_data_rate_set ----------------- *)
\* the register file the device's reg_access field selects
CtrlOf(d, name) == d.regs[d.fca.reg_access][name]
\* the writes among the transactions t, in order
WritesIn(t) ==
  [k \in 1..Cardinality({j \in 1..Len(t) : t[j].rw = "W"}) |->
     t[Nth({j \in 1..Len(t) : t[j].rw = "W"}, k)]]
\* the k-th register write of lsm6dso32_xl_data_rate_set(val): register,
\* field value (the field is the one named in the comment)
XlWrite(val, k) ==
  CASE k = 1 -> <<"CTRL1_XL", LSM6DSO32_XL_ODR_OFF>>     \* odr_xl
    [] k = 2 -> <<"CTRL5_C", (val \div 32) % 2>>          \* xl_ulp_en
    [] k = 3 -> <<"CTRL6_C", (val \div 16) % 2>>          \* xl_hm_mode
    [] k = 4 -> <<"CTRL1_XL", val % 16>>                  \* odr_xl
XlField(e) ==
  CASE e.reg = "CTRL1_XL" -> e.data.odr_xl
    [] e.reg = "CTRL5_C"  -> e.data.xl_ulp_en
    [] e.reg = "CTRL6_C"  -> e.data.xl_hm_mode

(* C29: lsm6dso32_xl_data_rate_set changes the power mode only while the
   accelerometer is off.  Its register writes are, in this order, CTRL1_XL
   with odr_xl = ODR_OFF, CTRL5_C with xl_ulp_en = bit 5 of val, CTRL6_C with
   xl_hm_mode = bit 4 of val, CTRL1_XL with odr_xl = val mod 16; when CTRL5_C
   or CTRL6_C is written the device's odr_xl is ODR_OFF; a transaction is
   issued only when all before it returned 0; and a call that returns 0 has
   made all four writes and leaves the three fields as val says. *)
C29_PowerModeWhileOff ==
  [][LET l == loc[1]
         m == loc'[1]
         t == m.trace
         w == WritesIn(t)
     IN (Running(l) /\ l.fn = "xl_data_rate_set" /\ l.ctx = "dev") =>
          /\ Len(t) = Len(l.trace) + 1
          /\ Clean(l)
          /\ Len(w) <= 4
          /\ \A k \in 1..Len(w) :
               w[k].reg = XlWrite(l.val, k)[1]
                 /\ XlField(w[k]) = XlWrite(l.val, k)[2]
          /\ l.pc \in {"c5_rd", "c5_wr", "c6_rd", "c6_wr", "c1_rd2"} =>
               CtrlOf(dev, "CTRL1_XL").odr_xl = LSM6DSO32_XL_ODR_OFF
          /\ (l.pc \in {"c5_wr", "c6_wr"} /\ dev' # dev) =>
               /\ CtrlOf(dev', "CTRL1_XL") = CtrlOf(dev, "CTRL1_XL")
               /\ t[Len(t)].st = 0
          /\ (m.pc = "done" /\ m.ret = 0) =>
               /\ Len(w) = 4 /\ Clean(m)
               /\ CtrlOf(dev', "CTRL1_XL").odr_xl = l.val % 16
               /\ CtrlOf(dev', "CTRL5_C").xl_ulp_en = (l.val \div 32) % 2
               /\ CtrlOf(dev', "CTRL6_C").xl_hm_mode = (l.val \div 16) % 2
          /\ (m.pc = "done" /\ m.ret # 0) => t[Len(t)].st = m.ret]_vars

\* the accelerometer, running at data rate 10 after a first call, has been
\* taken through off to val = 0x23 by a second call: ultra low power bit
\* set, data rate 3
C29_Witness ==
  /\ CfgReturned(1, "xl_data_rate_set") /\ loc[1].ret = 0 /\ loc[1].val = 35
  /\ prev[1].ok /\ calls = 2
  /\ Len(loc[1].trace) = 9
  /\ loc[1].trace[1].data.odr_xl = 10
  /\ loc[1].trace[2].data.odr_xl = LSM6DSO32_XL_ODR_OFF
  /\ CtrlOf(dev, "CTRL1_XL").odr_xl = 3
  /\ CtrlOf(dev, "CTRL5_C").xl_ulp_en = 1

=============================================================================
